---- MODULE Spec2Model ----
(***************************************************************************)
(* Position & PnL engine of trading-brt-ng (app/core/engine.py) and the    *)
(* trade ledger it replays.                                                *)
(*                                                                         *)
(* Python floats are modelled as exact rationals [n, d] in lowest terms    *)
(* with d > 0, so that equality of two numbers is equality of records.     *)
(* IEEE-754 rounding is not modelled: every arithmetic statement below is  *)
(* a statement about the exact value of the expression the code evaluates. *)
(***************************************************************************)
EXTENDS Integers, Sequences, FiniteSets, TLC

VARIABLES
    ledger,           \* the list of Trade records (st.session_state.trades / table trades)
    market_prices,    \* the mark-to-market table: "product::contract" -> price
    ttf_multiplier,   \* PositionEngine.ttf_multiplier, set by __init__
    pc,               \* position of the running request
    caller,           \* the entry point that runs calculate_positions
    filter_date,      \* the request's start date, or None
    settings_dict,    \* argument of the running calculate_positions call
    call_ttf_mult,    \* local ttf_mult: the scaling factor read at line 43
    active_trades,    \* local: filtered and sorted trades
    idx,              \* local: number of trades of active_trades already replayed
    temp_positions,   \* local: dict key -> position data, in insertion order
    history,          \* local: list of closure entries
    positions,        \* returned list of position snapshots
    report,           \* what the entry point returned after the replay
    previous          \* the first completed call on this ledger, once a later one runs

vars == <<ledger, market_prices, ttf_multiplier, pc, caller, filter_date,
          settings_dict, call_ttf_mult, active_trades, idx, temp_positions, history,
          positions, report, previous>>

-----------------------------------------------------------------------------
(* Bounds of the model.                                                    *)

MaxTrades == 3

\* trades in the ledgers whose closures are totalled
MaxRealizedTrades == 4

-----------------------------------------------------------------------------
(* Exact arithmetic standing for Python float arithmetic.                  *)

Abs(x) == IF x < 0 THEN 0 - x ELSE x

RECURSIVE GCD(_, _)
GCD(a, b) == IF b = 0 THEN a ELSE GCD(b, a % b)

Frac(n, d) ==
    LET s == IF d < 0 THEN 0 - 1 ELSE 1
        g == GCD(Abs(n), Abs(d))
    IN  [n |-> (s * n) \div g, d |-> (s * d) \div g]

R(i) == [n |-> i, d |-> 1]

Zero == R(0)

RAdd(a, b) ==
    LET g == GCD(a.d, b.d)
    IN  Frac(a.n * (b.d \div g) + b.n * (a.d \div g), (a.d \div g) * b.d)

RNeg(a) == [n |-> 0 - a.n, d |-> a.d]

RSub(a, b) == RAdd(a, RNeg(b))

RMul(a, b) ==
    LET g1 == GCD(Abs(a.n), b.d)
        g2 == GCD(Abs(b.n), a.d)
        h1 == IF g1 = 0 THEN 1 ELSE g1
        h2 == IF g2 = 0 THEN 1 ELSE g2
    IN  Frac((a.n \div h1) * (b.n \div h2), (a.d \div h2) * (b.d \div h1))

\* a / b for b # 0
RDiv(a, b) == RMul(a, Frac(b.d, b.n))

RAbs(a) == [n |-> Abs(a.n), d |-> a.d]

RLt(a, b) == a.n * b.d < b.n * a.d

RMin(a, b) == IF RLt(b, a) THEN b ELSE a

-----------------------------------------------------------------------------
(* Program constants.                                                      *)

\* CONTRACT_MULTIPLIERS.get(product, 1000)
DefaultMultiplier == 1000

CONTRACT_MULTIPLIERS ==
    [p \in {"Brent", "Henry Hub", "JKM", "TTF"} |->
        IF p = "Brent" THEN 1000 ELSE 10000]

\* default of the ttf_multiplier parameter of PositionEngine.__init__
DefaultTtfMultiplier == 3412

\* the near-zero tolerance 0.0001 of the replay and of the output filter
Tolerance == Frac(1, 10000)

-----------------------------------------------------------------------------
(* Dates.  A datetime is <<day, microsecond>>; isoformat() omits the       *)
(* microsecond part when it is zero.                                       *)

DateLe(a, b) == a[1] < b[1] \/ (a[1] = b[1] /\ a[2] <= b[2])

IsoFormat(dt) == IF dt[2] = 0 THEN <<dt[1]>> ELSE <<dt[1], dt[2]>>

\* filter_date = None
NoDate == <<>>

-----------------------------------------------------------------------------
(* dict.get(k, default)                                                    *)

Get(dict, k, default) == IF k \in DOMAIN dict THEN dict[k] ELSE default

-----------------------------------------------------------------------------
(* Trade records (app/models/trade.py).                                    *)

ACTIVE == "active"
REVERSED == "reversed"
REGULAR == "regular"
ADJUSTMENT == "adjustment"

Trade(id, date, trader, product, contract, quantity, price, status, type) ==
    [id |-> id, date |-> date, trader |-> trader, product |-> product,
     contract |-> contract, quantity |-> quantity, price |-> price,
     status |-> status, type |-> type]

-----------------------------------------------------------------------------
(* PositionEngine helpers.                                                 *)

\* variant of GetContractMultiplier: the scaling factor is applied to every
\* product
GetContractMultiplier_ScalesAll(product, ttf_mult) ==
    LET base_mult == Get(CONTRACT_MULTIPLIERS, product, DefaultMultiplier)
    IN  base_mult * ttf_mult

\* variant of GetContractMultiplier: a product outside the table gets the
\* multiplier of the gas products
GetContractMultiplier_NoDefault(product, ttf_mult) ==
    LET base_mult == Get(CONTRACT_MULTIPLIERS, product, 10000)
    IN  IF product = "TTF" THEN base_mult * ttf_mult ELSE base_mult

\* PositionEngine._get_contract_multiplier
GetContractMultiplier(product, ttf_mult) ==
    LET base_mult == Get(CONTRACT_MULTIPLIERS, product, DefaultMultiplier)
    IN  IF product = "TTF" THEN base_mult * ttf_mult ELSE base_mult

\* variant of GetFeeRate: the shared bucket is charged to Henry Hub only
GetFeeRate_HenryHubOnly(product, fees) ==
    IF product = "Brent"
    THEN Get(fees, "brentPerBbl", Zero)
    ELSE IF product = "Henry Hub"
    THEN Get(fees, "hhPerMMBtu", Zero)
    ELSE Zero

\* PositionEngine._get_fee_rate
GetFeeRate(product, fees) ==
    IF product = "Brent"
    THEN Get(fees, "brentPerBbl", Zero)
    ELSE Get(fees, "hhPerMMBtu", Zero)

\* key = f"{trade.trader}-{trade.product}-{trade.contract}"
PositionKey(trade) == trade.trader \o "-" \o trade.product \o "-" \o trade.contract

\* variant of ActiveFilter: the status is not looked at
ActiveFilter_All(trades) == trades

\* active_trades = [t for t in trades if t.status == TradeStatus.ACTIVE]
ActiveFilter(trades) == SelectSeq(trades, LAMBDA t : t.status = ACTIVE)

\* variant of Insert: t goes before the elements of equal date
RECURSIVE Insert_Unstable(_, _)
Insert_Unstable(sorted, t) ==
    IF sorted = <<>> THEN <<t>>
    ELSE LET last == sorted[Len(sorted)]
         IN  IF DateLe(last.date, t.date) /\ last.date # t.date
             THEN Append(sorted, t)
             ELSE Append(Insert_Unstable(SubSeq(sorted, 1, Len(sorted) - 1), t), last)

\* list.sort(key=lambda x: x.date): a stable sort by date.  Insert places t
\* after every element whose date is not later than t's.
RECURSIVE Insert(_, _)
Insert(sorted, t) ==
    IF sorted = <<>> THEN <<t>>
    ELSE LET last == sorted[Len(sorted)]
         IN  IF DateLe(last.date, t.date)
             THEN Append(sorted, t)
             ELSE Append(Insert(SubSeq(sorted, 1, Len(sorted) - 1), t), last)

RECURSIVE SortByDate(_)
SortByDate(trades) ==
    IF trades = <<>> THEN <<>>
    ELSE Insert(SortByDate(SubSeq(trades, 1, Len(trades) - 1)), trades[Len(trades)])

\* index of key in the dict temp_positions, 0 when absent
KeyIndex(tp, key) ==
    IF \E i \in 1..Len(tp) : tp[i].key = key
    THEN CHOOSE i \in 1..Len(tp) : tp[i].key = key
    ELSE 0

\* if key not in temp_positions: temp_positions[key] = {...}
EnsurePosition(tp, trade) ==
    IF KeyIndex(tp, PositionKey(trade)) # 0 THEN tp
    ELSE Append(tp, [key |-> PositionKey(trade), trader |-> trade.trader,
                     product |-> trade.product, contract |-> trade.contract,
                     quantity |-> Zero, total_value |-> Zero,
                     last_update |-> trade.date])

\* pos['quantity'] != 0 and (pos['quantity'] * trade.quantity) < 0
Opposes(pos, trade) ==
    pos.quantity # Zero /\ RLt(RMul(pos.quantity, trade.quantity), Zero)

\* close_qty = min(abs(pos['quantity']), abs(trade.quantity))
CloseQty(pos, trade) == RMin(RAbs(pos.quantity), RAbs(trade.quantity))

\* direction = 1 if pos['quantity'] > 0 else -1
Direction(pos) == IF RLt(Zero, pos.quantity) THEN R(1) ELSE R(0 - 1)

\* variant of AvgPrice: divides by the magnitude of the quantity
AvgPrice_Abs(pos) ==
    IF pos.quantity # Zero THEN RDiv(pos.total_value, RAbs(pos.quantity)) ELSE Zero

\* avg_price = pos['total_value'] / pos['quantity'] if pos['quantity'] != 0 else 0
AvgPrice(pos) ==
    IF pos.quantity # Zero THEN RDiv(pos.total_value, pos.quantity) ELSE Zero

\* variant of ClosureEntry: the gross gain does not take the direction of the
\* position
ClosureEntry_Unsigned(pos, trade, fees, ttf_mult) ==
    LET multiplier == R(GetContractMultiplier(trade.product, ttf_mult))
        close_qty == CloseQty(pos, trade)
        direction == Direction(pos)
        avg_price == AvgPrice(pos)
        gross == RMul(RMul(RSub(trade.price, avg_price), close_qty), multiplier)
        fee_rate == GetFeeRate(trade.product, fees)
        fee == RMul(RMul(RMul(close_qty, multiplier), R(2)), fee_rate)
        net_pl == RSub(gross, fee)
    IN  [date |-> IsoFormat(trade.date), trader |-> trade.trader,
         product |-> trade.product, contract |-> trade.contract,
         closed_quantity |-> RMul(RMul(close_qty, direction), R(0 - 1)),
         open_price |-> avg_price, close_price |-> trade.price,
         realized_pl |-> net_pl, multiplier |-> multiplier, fee |-> fee]

\* variant of ClosureEntry: the fee of one side only
ClosureEntry_SingleFee(pos, trade, fees, ttf_mult) ==
    LET multiplier == R(GetContractMultiplier(trade.product, ttf_mult))
        close_qty == CloseQty(pos, trade)
        direction == Direction(pos)
        avg_price == AvgPrice(pos)
        gross == RMul(RMul(RMul(RSub(trade.price, avg_price), close_qty),
                           direction), multiplier)
        fee_rate == GetFeeRate(trade.product, fees)
        fee == RMul(RMul(close_qty, multiplier), fee_rate)
        net_pl == RSub(gross, fee)
    IN  [date |-> IsoFormat(trade.date), trader |-> trade.trader,
         product |-> trade.product, contract |-> trade.contract,
         closed_quantity |-> RMul(RMul(close_qty, direction), R(0 - 1)),
         open_price |-> avg_price, close_price |-> trade.price,
         realized_pl |-> net_pl, multiplier |-> multiplier, fee |-> fee]

\* variant of ClosureEntry: closed_quantity carries the sign of the position
ClosureEntry_Sign(pos, trade, fees, ttf_mult) ==
    LET multiplier == R(GetContractMultiplier(trade.product, ttf_mult))
        close_qty == CloseQty(pos, trade)
        direction == Direction(pos)
        avg_price == AvgPrice(pos)
        gross == RMul(RMul(RMul(RSub(trade.price, avg_price), close_qty),
                           direction), multiplier)
        fee_rate == GetFeeRate(trade.product, fees)
        fee == RMul(RMul(RMul(close_qty, multiplier), R(2)), fee_rate)
        net_pl == RSub(gross, fee)
    IN  [date |-> IsoFormat(trade.date), trader |-> trade.trader,
         product |-> trade.product, contract |-> trade.contract,
         closed_quantity |-> RMul(close_qty, direction),
         open_price |-> avg_price, close_price |-> trade.price,
         realized_pl |-> net_pl, multiplier |-> multiplier, fee |-> fee]

\* the dict appended to history for a Regular opposing trade
ClosureEntry(pos, trade, fees, ttf_mult) ==
    LET multiplier == R(GetContractMultiplier(trade.product, ttf_mult))
        close_qty == CloseQty(pos, trade)
        direction == Direction(pos)
        avg_price == AvgPrice(pos)
        gross == RMul(RMul(RMul(RSub(trade.price, avg_price), close_qty),
                           direction), multiplier)
        fee_rate == GetFeeRate(trade.product, fees)
        fee == RMul(RMul(RMul(close_qty, multiplier), R(2)), fee_rate)
        net_pl == RSub(gross, fee)
    IN  [date |-> IsoFormat(trade.date), trader |-> trade.trader,
         product |-> trade.product, contract |-> trade.contract,
         closed_quantity |-> RMul(RMul(close_qty, direction), R(0 - 1)),
         open_price |-> avg_price, close_price |-> trade.price,
         realized_pl |-> net_pl, multiplier |-> multiplier, fee |-> fee]

\* variant of ClosedTotalValue: a partial close takes the closed lots out at
\* the trade price
ClosedTotalValue_AtTradePrice(pos, trade) ==
    LET close_qty == CloseQty(pos, trade)
    IN  IF RLt(Tolerance, RSub(RAbs(pos.quantity), close_qty))
        THEN RSub(pos.total_value,
                  RMul(RMul(close_qty, Direction(pos)), trade.price))
        ELSE Zero

\* variant of ClosedTotalValue: the lots beyond the closed position are
\* priced at the trade price
ClosedTotalValue_Residual(pos, trade) ==
    LET close_qty == CloseQty(pos, trade)
    IN  IF RLt(Tolerance, RSub(RAbs(pos.quantity), close_qty))
        THEN RMul(pos.total_value,
                  RDiv(RSub(RAbs(pos.quantity), close_qty), RAbs(pos.quantity)))
        ELSE RMul(RAdd(pos.quantity, trade.quantity), trade.price)

\* the cost basis left by a Regular opposing trade
ClosedTotalValue(pos, trade) ==
    LET close_qty == CloseQty(pos, trade)
    IN  IF RLt(Tolerance, RSub(RAbs(pos.quantity), close_qty))
        THEN RMul(pos.total_value,
                  RDiv(RSub(RAbs(pos.quantity), close_qty), RAbs(pos.quantity)))
        ELSE Zero

\* variant of UpdatedPosition: a closing trade shifts the cost basis as an
\* Adjustment does
UpdatedPosition_AlwaysAdds(pos, trade) ==
    [pos EXCEPT !.total_value =
                    RAdd(pos.total_value, RMul(trade.quantity, trade.price)),
                !.quantity = RAdd(pos.quantity, trade.quantity)]

\* variant of UpdatedPosition: a trade that adds to a position replaces its
\* cost basis
UpdatedPosition_Replace(pos, trade) ==
    IF Opposes(pos, trade) /\ trade.type = REGULAR
    THEN [pos EXCEPT !.total_value = ClosedTotalValue(pos, trade),
                     !.quantity = RAdd(pos.quantity, trade.quantity)]
    ELSE [pos EXCEPT !.total_value = RMul(trade.quantity, trade.price),
                     !.quantity = RAdd(pos.quantity, trade.quantity)]

\* the position data after the trade
UpdatedPosition(pos, trade) ==
    IF Opposes(pos, trade) /\ trade.type = REGULAR
    THEN [pos EXCEPT !.total_value = ClosedTotalValue(pos, trade),
                     !.quantity = RAdd(pos.quantity, trade.quantity)]
    ELSE [pos EXCEPT !.total_value =
                         RAdd(pos.total_value, RMul(trade.quantity, trade.price)),
                     !.quantity = RAdd(pos.quantity, trade.quantity)]

\* the position data a trade is applied to (line 59)
PositionFor(tp, trade) ==
    EnsurePosition(tp, trade)[KeyIndex(EnsurePosition(tp, trade), PositionKey(trade))]

\* variant of Divisors: the average price is computed for every trade,
\* before the position is tested
Divisors_Unguarded(pos, trade) ==
    {pos.quantity}
    \cup (IF Opposes(pos, trade) /\ trade.type = REGULAR
             /\ RLt(Tolerance, RSub(RAbs(pos.quantity), CloseQty(pos, trade)))
          THEN {RAbs(pos.quantity)} ELSE {})

\* the denominators one iteration of the loop divides by: line 71 under the
\* tests of lines 65 and 71, line 102 under the tests of lines 65, 74 and 100
Divisors(pos, trade) ==
    IF Opposes(pos, trade)
    THEN (IF pos.quantity # Zero THEN {pos.quantity} ELSE {})
         \cup (IF trade.type = REGULAR
                  /\ RLt(Tolerance, RSub(RAbs(pos.quantity), CloseQty(pos, trade)))
               THEN {RAbs(pos.quantity)} ELSE {})
    ELSE {}

\* the denominators of the list comprehension of lines 120-132: line 128
\* divides for the entries that pass its own test and the filter of line 131,
\* which are the same test
EmitDivisors(tp) ==
    {tp[i].quantity : i \in {j \in 1..Len(tp) : RLt(Tolerance, RAbs(tp[j].quantity))}}

\* variant of ReplayTrade: the closure entry is put at the head of the list
ReplayTrade_Prepend(st, trade, fees, ttf_mult) ==
    LET tp == EnsurePosition(st.tp, trade)
        i == KeyIndex(tp, PositionKey(trade))
        pos == tp[i]
    IN  [tp |-> [tp EXCEPT ![i] = UpdatedPosition(pos, trade)],
         h |-> IF Opposes(pos, trade) /\ trade.type = REGULAR
               THEN <<ClosureEntry(pos, trade, fees, ttf_mult)>> \o st.h
               ELSE st.h]

\* variant of ReplayTrade: the kind of the trade is not looked at when the
\* closure entry is appended
ReplayTrade_AnyType(st, trade, fees, ttf_mult) ==
    LET tp == EnsurePosition(st.tp, trade)
        i == KeyIndex(tp, PositionKey(trade))
        pos == tp[i]
    IN  [tp |-> [tp EXCEPT ![i] = UpdatedPosition(pos, trade)],
         h |-> IF Opposes(pos, trade)
               THEN Append(st.h, ClosureEntry(pos, trade, fees, ttf_mult))
               ELSE st.h]

\* one iteration of `for trade in active_trades`, on the pair of locals
\* [tp |-> temp_positions, h |-> history]
ReplayTrade(st, trade, fees, ttf_mult) ==
    LET tp == EnsurePosition(st.tp, trade)
        i == KeyIndex(tp, PositionKey(trade))
        pos == tp[i]
    IN  [tp |-> [tp EXCEPT ![i] = UpdatedPosition(pos, trade)],
         h |-> IF Opposes(pos, trade) /\ trade.type = REGULAR
               THEN Append(st.h, ClosureEntry(pos, trade, fees, ttf_mult))
               ELSE st.h]

\* variant of EmitPositions: only the exactly flat positions are dropped
EmitPositions_NonZero(tp) ==
    LET live == SelectSeq(tp, LAMBDA data : data.quantity # Zero)
    IN  [i \in 1..Len(live) |->
            [key |-> live[i].key, trader |-> live[i].trader,
             product |-> live[i].product, contract |-> live[i].contract,
             quantity |-> live[i].quantity, total_value |-> live[i].total_value,
             avg_price |-> IF RLt(Tolerance, RAbs(live[i].quantity))
                           THEN RDiv(live[i].total_value, live[i].quantity)
                           ELSE Zero]]

\* the list comprehension building the returned positions
EmitPositions(tp) ==
    LET live == SelectSeq(tp, LAMBDA data : RLt(Tolerance, RAbs(data.quantity)))
    IN  [i \in 1..Len(live) |->
            [key |-> live[i].key, trader |-> live[i].trader,
             product |-> live[i].product, contract |-> live[i].contract,
             quantity |-> live[i].quantity, total_value |-> live[i].total_value,
             avg_price |-> IF RLt(Tolerance, RAbs(live[i].quantity))
                           THEN RDiv(live[i].total_value, live[i].quantity)
                           ELSE Zero]]

\* settings = settings_dict or {}; fees = settings.get('fees', {})
FeesOf(sd) == Get(sd, "fees", <<>>)

\* ttf_mult = settings.get('ttfMultiplier', self.ttf_multiplier)
TtfMultOf(sd, self_ttf) == Get(sd, "ttfMultiplier", self_ttf)

\* the whole loop over a list of trades already filtered and sorted
RECURSIVE ReplayAll(_, _, _)
ReplayAll(trades, fees, ttf_mult) ==
    IF trades = <<>> THEN [tp |-> <<>>, h |-> <<>>]
    ELSE ReplayTrade(ReplayAll(SubSeq(trades, 1, Len(trades) - 1), fees, ttf_mult),
                     trades[Len(trades)], fees, ttf_mult)

\* PositionEngine.calculate_positions as a function of its arguments
CalculatePositions(trades, sd, self_ttf) ==
    LET final == ReplayAll(SortByDate(ActiveFilter(trades)),
                           FeesOf(sd), TtfMultOf(sd, self_ttf))
    IN  [positions |-> EmitPositions(final.tp), history |-> final.h]

-----------------------------------------------------------------------------
(* Valuation of the open positions (app/core/engine.py, lines 152-197).    *)

\* variant of CalculateFloatingPnl: the base multiplier of the product, not
\* scaled for TTF
CalculateFloatingPnl_BaseMultiplier(position, mtm_price, sd, self_ttf) ==
    LET fees == FeesOf(sd)
        multiplier == R(Get(CONTRACT_MULTIPLIERS, position.product, DefaultMultiplier))
        gross == RMul(RSub(RMul(mtm_price, position.quantity), position.total_value),
                      multiplier)
        fee_rate == GetFeeRate(position.product, fees)
        unrealized_fee == RMul(RMul(RAbs(position.quantity), multiplier), fee_rate)
    IN  RSub(gross, unrealized_fee)

\* net = (mtm_price * quantity - total_value) * multiplier
\*       - abs(quantity) * multiplier * fee_rate
CalculateFloatingPnl(position, mtm_price, sd, self_ttf) ==
    LET fees == FeesOf(sd)
        ttf_mult == TtfMultOf(sd, self_ttf)
        multiplier == R(GetContractMultiplier(position.product, ttf_mult))
        gross == RMul(RSub(RMul(mtm_price, position.quantity), position.total_value),
                      multiplier)
        fee_rate == GetFeeRate(position.product, fees)
        unrealized_fee == RMul(RMul(RAbs(position.quantity), multiplier), fee_rate)
    IN  RSub(gross, unrealized_fee)

\* scoped_key = f"{pos['product']}::{pos['contract']}"
ScopedKey(pos) == pos.product \o "::" \o pos.contract

\* generic_key = f"GENERIC::{pos['contract']}"
GenericKey(pos) == "GENERIC::" \o pos.contract

\* the denominators calculate_total_floating divides by (line 193)
TotalFloatingDivisors(poss, mp) ==
    {poss[i].quantity : i \in {j \in 1..Len(poss) : /\ ScopedKey(poss[j]) \notin DOMAIN mp
                                                   /\ poss[j].quantity # Zero}}

\* the mark price calculate_total_floating values a position at
TotalFloatingMtm(pos, mp) ==
    IF ScopedKey(pos) \in DOMAIN mp THEN mp[ScopedKey(pos)]
    ELSE IF pos.quantity # Zero THEN RDiv(pos.total_value, pos.quantity)
    ELSE Zero

RECURSIVE CalculateTotalFloating(_, _, _, _)
CalculateTotalFloating(poss, mp, sd, self_ttf) ==
    IF poss = <<>> THEN Zero
    ELSE RAdd(CalculateTotalFloating(SubSeq(poss, 1, Len(poss) - 1), mp, sd, self_ttf),
              CalculateFloatingPnl(poss[Len(poss)],
                                   TotalFloatingMtm(poss[Len(poss)], mp), sd, self_ttf))

-----------------------------------------------------------------------------
(* Realized totals and groupings (app/core/pnl.py).                        *)

\* a >= b on strings: the order of the characters, a prefix being smaller
RECURSIVE StrGe(_, _)
StrGe(a, b) ==
    IF b = <<>> THEN TRUE
    ELSE IF a = <<>> THEN FALSE
    ELSE IF a[1] # b[1] THEN a[1] > b[1]
    ELSE StrGe(Tail(a), Tail(b))

RECURSIVE CalculateRealizedTotal(_, _, _)
CalculateRealizedTotal(hist, initial_pl, fd) ==
    IF hist = <<>> THEN initial_pl
    ELSE LET total == CalculateRealizedTotal(SubSeq(hist, 1, Len(hist) - 1),
                                             initial_pl, fd)
             h == hist[Len(hist)]
         IN  IF fd # NoDate
             THEN IF StrGe(h.date, fd) THEN RAdd(total, h.realized_pl) ELSE total
             ELSE RAdd(total, h.realized_pl)

\* variant of Accumulate: the value of a key already present is replaced
Accumulate_Overwrite(result, k, v) ==
    IF \E i \in 1..Len(result) : result[i].k = k
    THEN [i \in 1..Len(result) |->
            IF result[i].k = k THEN [k |-> k, v |-> v] ELSE result[i]]
    ELSE Append(result, [k |-> k, v |-> RAdd(Zero, v)])

\* result[k] = result.get(k, 0) + v, on a dict kept in insertion order
Accumulate(result, k, v) ==
    IF \E i \in 1..Len(result) : result[i].k = k
    THEN [i \in 1..Len(result) |->
            IF result[i].k = k
            THEN [k |-> k, v |-> RAdd(result[i].v, v)]
            ELSE result[i]]
    ELSE Append(result, [k |-> k, v |-> RAdd(Zero, v)])

\* h['date'][:10]
Day(iso) == <<iso[1]>>

\* sorted(items, key=lambda x: x[0], reverse=True), inserting one item
InsertDesc(sorted, item) ==
    LET before == SelectSeq(sorted, LAMBDA x : x.k[1] >= item.k[1])
        after == SelectSeq(sorted, LAMBDA x : x.k[1] < item.k[1])
    IN  before \o <<item>> \o after

RECURSIVE SortDesc(_)
SortDesc(items) ==
    IF items = <<>> THEN <<>>
    ELSE InsertDesc(SortDesc(SubSeq(items, 1, Len(items) - 1)), items[Len(items)])

RECURSIVE DailyDict(_)
DailyDict(hist) ==
    IF hist = <<>> THEN <<>>
    ELSE Accumulate(DailyDict(SubSeq(hist, 1, Len(hist) - 1)),
                    Day(hist[Len(hist)].date), hist[Len(hist)].realized_pl)

GetDailyPnl(hist, days) ==
    LET sorted_days == SortDesc(DailyDict(hist))
    IN  SubSeq(sorted_days, 1, IF days < Len(sorted_days) THEN days ELSE Len(sorted_days))

RECURSIVE GetTraderPnl(_)
GetTraderPnl(hist) ==
    IF hist = <<>> THEN <<>>
    ELSE Accumulate(GetTraderPnl(SubSeq(hist, 1, Len(hist) - 1)),
                    hist[Len(hist)].trader, hist[Len(hist)].realized_pl)

RECURSIVE GetProductPnl(_)
GetProductPnl(hist) ==
    IF hist = <<>> THEN <<>>
    ELSE Accumulate(GetProductPnl(SubSeq(hist, 1, Len(hist) - 1)),
                    hist[Len(hist)].product, hist[Len(hist)].realized_pl)

\* history.sort(key=lambda x: x['date'], reverse=True): stable, latest first
InsertByDateDesc(sorted, h) ==
    LET before == SelectSeq(sorted, LAMBDA x : StrGe(x.date, h.date))
        after == SelectSeq(sorted, LAMBDA x : ~StrGe(x.date, h.date))
    IN  before \o <<h>> \o after

RECURSIVE SortHistoryDesc(_)
SortHistoryDesc(hist) ==
    IF hist = <<>> THEN <<>>
    ELSE InsertByDateDesc(SortHistoryDesc(SubSeq(hist, 1, Len(hist) - 1)),
                          hist[Len(hist)])

-----------------------------------------------------------------------------
(* Inputs.                                                                 *)

\* trade records a ledger can hold: every combination of the given fields
Templates(instruments, quantities, prices, types, dates) ==
    { [date |-> d, trader |-> k[1], product |-> k[2], contract |-> k[3],
       quantity |-> q, price |-> p, status |-> ACTIVE, type |-> ty] :
      k \in instruments, q \in quantities, p \in prices, ty \in types, d \in dates }

Brent2602 == <<"W", "Brent", "2602">>

Quantities == {R(0 - 10), R(0 - 4), R(4), R(10)}

Prices == {R(80), R(85)}

Types == {REGULAR, ADJUSTMENT}

\* one position key, both kinds of trade, one timestamp
NettingTemplates == Templates({Brent2602}, Quantities, Prices, Types, {<<1, 0>>})

\* three products; the keys of the last two instruments are the same string
HenryHub2601 == <<"W", "Henry Hub", "HH2601">>

DeskBrent2602 == <<"W-L", "Brent", "2602">>

SpreadBrent2602 == <<"W", "L-Brent", "2602">>

KeysTemplates ==
    Templates({HenryHub2601, DeskBrent2602, SpreadBrent2602},
              {R(0 - 10), R(0 - 4), R(10)}, Prices, {REGULAR}, {<<1, 0>>})

\* quantities around the tolerance of 0.0001 lots, on two keys
Brent2603 == <<"L", "Brent", "2603">>

TinyQuantities ==
    {Frac(0 - 3, 10000), Frac(0 - 1, 10000), Frac(1, 10000), Frac(3, 10000)}

ToleranceTemplates ==
    Templates({Brent2602, Brent2603}, TinyQuantities, Prices, {REGULAR}, {<<1, 0>>})

\* two timestamps in any ledger order
Dates == {<<1, 0>>, <<2, 0>>}

LedgerTemplates ==
    Templates({Brent2602}, {R(0 - 4), R(10)}, Prices, {REGULAR}, Dates)

\* settings_dict arguments: None / {} and a dict with both fee buckets
NoSettings == <<>>

FeeSettings ==
    [fees |-> [brentPerBbl |-> Frac(1, 100), hhPerMMBtu |-> Frac(1, 50)]]

SettingsChoices == {NoSettings, FeeSettings}

\* TTF and Brent, at prices and lots that keep the TTF amounts small
Ttf2603 == <<"W", "TTF", "TTF2603">>

MarkPrices == {R(2), R(3)}

ValuationTemplates ==
    Templates({Ttf2603}, {R(0 - 1), R(2)}, MarkPrices, {REGULAR}, {<<1, 0>>})
    \cup Templates({Brent2602}, {R(2)}, {R(3)}, {REGULAR}, {<<1, 0>>})

CallsTemplates ==
    Templates({Ttf2603}, {R(0 - 1), R(2)}, MarkPrices, {REGULAR}, {<<1, 0>>})

\* Settings.to_dict(): every key present
DeskSettings ==
    [fees |-> [brentPerBbl |-> Frac(1, 100), hhPerMMBtu |-> Frac(1, 50)],
     ttfMultiplier |-> 2,
     initialRealizedPL |-> R(100),
     reconciliation |-> [base |-> R(5), other |-> R(3)]]

\* a dict with the Brent bucket only
BrentFeeSettings == [fees |-> [brentPerBbl |-> Frac(1, 100)]]

ValuationSettings == {NoSettings, DeskSettings, BrentFeeSettings}

\* settings_record.to_dict() if settings_record else {}
EndpointSettings == {NoSettings, DeskSettings}

\* values written to engine.ttf_multiplier
TtfInputs == {2, DefaultTtfMultiplier}

\* the rows set_mtm_price is called with
MarkRows == {<<"TTF", "TTF2603", R(3)>>, <<"GENERIC", "TTF2603", R(2)>>}

\* closures on two days, by two traders, in two products
DeskHenryHub2601 == <<"L", "Henry Hub", "HH2601">>

RealizedTemplates ==
    Templates({Brent2602}, {R(2)}, {R(80)}, {REGULAR}, {<<1, 0>>})
    \cup Templates({Brent2602}, {R(0 - 1)}, {R(85)}, {REGULAR}, Dates)
    \cup Templates({DeskHenryHub2601}, {R(1)}, {R(3)}, {REGULAR}, {<<1, 0>>})
    \cup Templates({DeskHenryHub2601}, {R(0 - 1)}, {R(2)}, {REGULAR}, {<<2, 0>>})

\* start dates of a request: none, or the second day
FilterDates == {NoDate, <<2>>}

\* initial_pl arguments
InitialBalances == {Zero, R(100)}

\* days arguments: one day, and the default of 30
DaysInputs == {1, 30}

\* statement values, as offsets from the net value
StatementOffsets == {R(0 - 1), Frac(0 - 1, 2), Frac(1, 2), R(1)}

\* the five kinds of product of the lookups, one contract each
Jkm2603 == <<"W", "JKM", "JKM2603">>

Dubai2603 == <<"W", "Dubai", "DB2603">>

LookupInstruments == {Brent2602, HenryHub2601, Jkm2603, Ttf2603, Dubai2603}

LookupTemplates ==
    Templates(LookupInstruments, {R(2)}, {R(2)}, {REGULAR}, {<<1, 0>>})
    \cup Templates(LookupInstruments, {R(0 - 1)}, {R(3)}, {REGULAR}, {<<1, 0>>})

\* pathological trades on one key: zero quantity, zero price, both kinds
TotalityTemplates ==
    Templates({Brent2602}, {R(0 - 2), Zero, R(1)}, {Zero, R(2)}, Types, {<<1, 0>>})

\* a dict with the shared bucket only
SharedFeeSettings == [fees |-> [hhPerMMBtu |-> Frac(1, 50)]]

LookupSettings == {DeskSettings, BrentFeeSettings, SharedFeeSettings}

-----------------------------------------------------------------------------
(* The state machine.                                                      *)

\* the entry points that run the engine
ENGINE == "calculate_positions"

NoReport == [kind |-> "none"]

\* datetime.fromisoformat of a date string: midnight of that day
FromIsoFormat(s) == <<s[1], 0>>

\* the trades a caller hands to calculate_positions
PreFilter(c, trades, fd) ==
    IF c = ENGINE THEN trades
    ELSE IF c = "streamlit"
    THEN SelectSeq(trades, LAMBDA t : t.date[1] >= fd[1])
    ELSE SelectSeq(trades,
                   LAMBDA t : /\ t.status = ACTIVE
                              /\ (fd = NoDate \/ DateLe(FromIsoFormat(fd), t.date)))

\* the engine a caller runs: the streamlit page and the endpoints construct
\* theirs from the settings, a direct call runs on the engine as it is
EngineOf(c, sd, self_ttf) ==
    IF c = ENGINE THEN self_ttf ELSE Get(sd, "ttfMultiplier", DefaultTtfMultiplier)

\* no request is running
Quiescent ==
    pc = "idle" \/ pc = "reported" \/ pc = "raised" \/ (pc = "done" /\ caller = ENGINE)

NoCall ==
    /\ pc' = "idle"
    /\ caller' = ENGINE
    /\ filter_date' = NoDate
    /\ settings_dict' = NoSettings
    /\ call_ttf_mult' = 0
    /\ active_trades' = <<>>
    /\ idx' = 0
    /\ temp_positions' = <<>>
    /\ history' = <<>>
    /\ positions' = <<>>
    /\ report' = NoReport
    /\ previous' = <<>>

Init ==
    /\ ledger = <<>>
    /\ market_prices = <<>>
    /\ ttf_multiplier = DefaultTtfMultiplier
    /\ pc = "idle"
    /\ caller = ENGINE
    /\ filter_date = NoDate
    /\ settings_dict = NoSettings
    /\ call_ttf_mult = 0
    /\ active_trades = <<>>
    /\ idx = 0
    /\ temp_positions = <<>>
    /\ history = <<>>
    /\ positions = <<>>
    /\ report = NoReport
    /\ previous = <<>>

\* a stored trade record is appended to a ledger of fewer than max records
LoadTradeUpTo(templates, max) ==
    /\ Quiescent
    /\ Len(ledger) < max
    /\ \E t \in templates :
          ledger' = Append(ledger,
                           Trade(Len(ledger) + 1, t.date, t.trader, t.product,
                                 t.contract, t.quantity, t.price, t.status, t.type))
    /\ NoCall
    /\ UNCHANGED <<market_prices, ttf_multiplier>>

LoadTrade(templates) == LoadTradeUpTo(templates, MaxTrades)

\* DELETE /api/trades/{trade_id}: soft delete
reverse_trade ==
    /\ Quiescent
    /\ \E i \in 1..Len(ledger) :
          ledger' = [ledger EXCEPT ![i].status = REVERSED]
    /\ NoCall
    /\ UNCHANGED <<market_prices, ttf_multiplier>>

\* variant of EnterCall: the caller's list itself is sorted
EnterCall_SortsInPlace(c, sd, fd) ==
    /\ caller' = c
    /\ settings_dict' = sd
    /\ filter_date' = fd
    /\ ttf_multiplier' = EngineOf(c, sd, ttf_multiplier)
    /\ call_ttf_mult' = TtfMultOf(sd, EngineOf(c, sd, ttf_multiplier))
    /\ ledger' = SortByDate(ledger)
    /\ active_trades' = SortByDate(ActiveFilter(PreFilter(c, ledger, fd)))
    /\ idx' = 0
    /\ temp_positions' = <<>>
    /\ history' = <<>>
    /\ positions' = <<>>
    /\ report' = NoReport
    /\ pc' = "replay"
    /\ UNCHANGED market_prices

\* variant of EnterCall: the history list of the call before is kept
EnterCall_KeepsHistory(c, sd, fd) ==
    /\ caller' = c
    /\ settings_dict' = sd
    /\ filter_date' = fd
    /\ ttf_multiplier' = EngineOf(c, sd, ttf_multiplier)
    /\ call_ttf_mult' = TtfMultOf(sd, EngineOf(c, sd, ttf_multiplier))
    /\ active_trades' = SortByDate(ActiveFilter(PreFilter(c, ledger, fd)))
    /\ idx' = 0
    /\ temp_positions' = <<>>
    /\ history' = history
    /\ positions' = <<>>
    /\ report' = NoReport
    /\ pc' = "replay"
    /\ UNCHANGED <<ledger, market_prices>>

\* a caller builds its arguments and enters calculate_positions, lines 32-43:
\* filter, sort, initialise the locals
EnterCall(c, sd, fd) ==
    /\ caller' = c
    /\ settings_dict' = sd
    /\ filter_date' = fd
    /\ ttf_multiplier' = EngineOf(c, sd, ttf_multiplier)
    /\ call_ttf_mult' = TtfMultOf(sd, EngineOf(c, sd, ttf_multiplier))
    /\ active_trades' = SortByDate(ActiveFilter(PreFilter(c, ledger, fd)))
    /\ idx' = 0
    /\ temp_positions' = <<>>
    /\ history' = <<>>
    /\ positions' = <<>>
    /\ report' = NoReport
    /\ pc' = "replay"
    /\ UNCHANGED <<ledger, market_prices>>

\* the first call on a ledger
CalculateStart(callers, choices, filters) ==
    /\ Quiescent
    /\ \E c \in callers, sd \in choices, fd \in filters :
          /\ c = ENGINE => fd = NoDate
          /\ c = "streamlit" => fd # NoDate
          /\ EnterCall(c, sd, fd)
    /\ previous' = <<>>

\* a further call on the same engine and ledger; the first call is remembered
Recalculate(choices) ==
    /\ pc = "done"
    /\ caller = ENGINE
    /\ \E sd \in choices : EnterCall(ENGINE, sd, NoDate)
    /\ previous' = IF previous = <<>>
                   THEN <<[trades |-> ledger, settings_dict |-> settings_dict,
                           call_ttf_mult |-> call_ttf_mult,
                           positions |-> positions, history |-> history]>>
                   ELSE previous

\* calculate_positions, lines 45-117: one iteration of the loop; a division
\* by zero raises ZeroDivisionError out of the call
ReplayStep ==
    /\ pc = "replay"
    /\ idx < Len(active_trades)
    /\ LET trade == active_trades[idx + 1]
           next == ReplayTrade([tp |-> temp_positions, h |-> history],
                               trade, FeesOf(settings_dict), call_ttf_mult)
       IN  IF Zero \in Divisors(PositionFor(temp_positions, trade), trade)
           THEN /\ pc' = "raised"
                /\ UNCHANGED <<temp_positions, history, idx>>
           ELSE /\ temp_positions' = next.tp
                /\ history' = next.h
                /\ idx' = idx + 1
                /\ pc' = pc
    /\ UNCHANGED <<ledger, market_prices, ttf_multiplier, caller, filter_date,
                   settings_dict, call_ttf_mult, active_trades, positions, report, previous>>

\* calculate_positions, lines 119-135: filter the flat positions and return
CalculateReturn ==
    /\ pc = "replay"
    /\ idx = Len(active_trades)
    /\ IF Zero \in EmitDivisors(temp_positions)
       THEN /\ pc' = "raised"
            /\ positions' = positions
       ELSE /\ pc' = "done"
            /\ positions' = EmitPositions(temp_positions)
    /\ UNCHANGED <<ledger, market_prices, ttf_multiplier, caller, filter_date,
                   settings_dict, call_ttf_mult, active_trades, idx, temp_positions,
                   history, report, previous>>

\* engine.ttf_multiplier = ttf_multiplier
SetTtfMultiplier ==
    /\ \E v \in TtfInputs : ttf_multiplier' = v
    /\ UNCHANGED <<ledger, market_prices, pc, caller, filter_date, settings_dict,
                   call_ttf_mult, active_trades, idx, temp_positions, history,
                   positions, report, previous>>

\* MarketDataService.set_mtm_price: the row of (product, contract) is
\* updated or created
set_mtm_price ==
    /\ Quiescent
    /\ \E row \in MarkRows :
          LET key == row[1] \o "::" \o row[2]
          IN  market_prices' = [k \in DOMAIN market_prices \cup {key} |->
                                  IF k = key THEN row[3] ELSE market_prices[k]]
    /\ NoCall
    /\ UNCHANGED <<ledger, ttf_multiplier>>

\* a direct call of calculate_floating_pnl on a returned position
calculate_floating_pnl ==
    /\ pc = "done"
    /\ caller = ENGINE
    /\ \E i \in 1..Len(positions), mtm_price \in MarkPrices :
          report' = [kind |-> "calculate_floating_pnl", position |-> positions[i],
                     mtm_price |-> mtm_price,
                     self_ttf |-> ttf_multiplier,
                     net |-> CalculateFloatingPnl(positions[i], mtm_price,
                                                  settings_dict, ttf_multiplier)]
    /\ UNCHANGED <<ledger, market_prices, ttf_multiplier, pc, caller, filter_date,
                   settings_dict, call_ttf_mult, active_trades, idx, temp_positions,
                   history, positions, previous>>

\* a direct call of calculate_total_floating on the returned positions
calculate_total_floating ==
    /\ pc = "done"
    /\ caller = ENGINE
    /\ report' = IF Zero \in TotalFloatingDivisors(positions, market_prices)
                 THEN [kind |-> "raised"]
                 ELSE [kind |-> "calculate_total_floating",
                       total |-> CalculateTotalFloating(positions, market_prices,
                                                        settings_dict, ttf_multiplier)]
    /\ UNCHANGED <<ledger, market_prices, ttf_multiplier, pc, caller, filter_date,
                   settings_dict, call_ttf_mult, active_trades, idx, temp_positions,
                   history, positions, previous>>

\* variant of GetPositionsMtm: a position without a mark is valued at 0
GetPositionsMtm_ZeroDefault(pos, mp) ==
    IF ScopedKey(pos) \in DOMAIN mp THEN mp[ScopedKey(pos)]
    ELSE IF GenericKey(pos) \in DOMAIN mp THEN mp[GenericKey(pos)]
    ELSE Zero

\* the mark price get_positions values a position at (lines 53-69)
GetPositionsMtm(pos, mp) ==
    IF ScopedKey(pos) \in DOMAIN mp THEN mp[ScopedKey(pos)]
    ELSE IF GenericKey(pos) \in DOMAIN mp THEN mp[GenericKey(pos)]
    ELSE pos.avg_price

\* GET /api/positions, after the replay
get_positions ==
    /\ pc = "done"
    /\ caller = "get_positions"
    /\ LET positions_with_pnl ==
               [i \in 1..Len(positions) |->
                  [pos |-> positions[i],
                   mtm |-> GetPositionsMtm(positions[i], market_prices),
                   floating_pnl |->
                       CalculateFloatingPnl(positions[i],
                                            GetPositionsMtm(positions[i], market_prices),
                                            settings_dict, ttf_multiplier)]]
           Total[n \in 0..Len(positions)] ==
               IF n = 0 THEN Zero
               ELSE RAdd(Total[n - 1], positions_with_pnl[n].floating_pnl)
       IN  report' = [kind |-> "get_positions", positions |-> positions_with_pnl,
                      total_floating |-> Total[Len(positions)]]
    /\ pc' = "reported"
    /\ UNCHANGED <<ledger, market_prices, ttf_multiplier, caller, filter_date,
                   settings_dict, call_ttf_mult, active_trades, idx, temp_positions,
                   history, positions, previous>>

\* get_reconciliation_data, after the replay
GetReconciliationData(poss, hist, mp, sd, fd, self_ttf) ==
    LET rec_settings == Get(sd, "reconciliation", <<>>)
        realized_total ==
            CalculateRealizedTotal(hist,
                                   IF fd = NoDate
                                   THEN Get(sd, "initialRealizedPL", Zero) ELSE Zero,
                                   fd)
        floating_total == CalculateTotalFloating(poss, mp, sd, self_ttf)
        net_value == RSub(RSub(RAdd(realized_total, floating_total),
                               Get(rec_settings, "base", Zero)),
                          Get(rec_settings, "other", Zero))
        position_details ==
            [i \in 1..Len(poss) |->
               LET mtm == Get(mp, ScopedKey(poss[i]), poss[i].avg_price)
               IN  [contract |-> poss[i].contract, product |-> poss[i].product,
                    quantity |-> poss[i].quantity, avg_price |-> poss[i].avg_price,
                    mtm |-> mtm,
                    floating_pnl |-> CalculateFloatingPnl(poss[i], mtm, sd, self_ttf)]]
    IN  [realized_total |-> realized_total, floating_total |-> floating_total,
         reconciliation_base |-> Get(rec_settings, "base", Zero),
         reconciliation_other |-> Get(rec_settings, "other", Zero),
         net_value |-> net_value, position_details |-> position_details]

\* variant of IsMatch: a difference of exactly 1 is accepted
IsMatch_Inclusive(diff) == ~RLt(R(1), RAbs(diff))

\* "is_match": abs(diff) < 1
IsMatch(diff) == RLt(RAbs(diff), R(1))

\* POST /api/reconciliation/check, after the replay; the statement values
\* tried lie around the net value
check_reconciliation(offsets) ==
    /\ pc = "done"
    /\ caller = "check_reconciliation"
    /\ \E offset \in offsets :
          LET data == GetReconciliationData(positions, history, market_prices,
                                            settings_dict, filter_date, ttf_multiplier)
              statement_value == RAdd(data.net_value, offset)
              diff == RSub(statement_value, data.net_value)
          IN  report' = [kind |-> "check_reconciliation", data |-> data,
                         statement_value |-> statement_value,
                         net_value |-> data.net_value, diff |-> diff,
                         is_match |-> IsMatch(diff)]
    /\ pc' = "reported"
    /\ UNCHANGED <<ledger, market_prices, ttf_multiplier, caller, filter_date,
                   settings_dict, call_ttf_mult, active_trades, idx, temp_positions,
                   history, positions, previous>>

\* a direct call of PNLCalculator.calculate_realized_total on the history
calculate_realized_total ==
    /\ pc = "done"
    /\ caller = ENGINE
    /\ \E initial_pl \in InitialBalances, fd \in FilterDates :
          report' = [kind |-> "calculate_realized_total", initial_pl |-> initial_pl,
                     filter_date |-> fd,
                     total |-> CalculateRealizedTotal(history, initial_pl, fd)]
    /\ UNCHANGED <<ledger, market_prices, ttf_multiplier, pc, caller, filter_date,
                   settings_dict, call_ttf_mult, active_trades, idx, temp_positions,
                   history, positions, previous>>

\* a direct call of PNLCalculator.get_daily_pnl on the history
get_daily_pnl ==
    /\ pc = "done"
    /\ caller = ENGINE
    /\ \E days \in DaysInputs :
          report' = [kind |-> "get_daily_pnl", days |-> days,
                     daily_pnl |-> GetDailyPnl(history, days)]
    /\ UNCHANGED <<ledger, market_prices, ttf_multiplier, pc, caller, filter_date,
                   settings_dict, call_ttf_mult, active_trades, idx, temp_positions,
                   history, positions, previous>>

\* GET /api/history, after the replay
get_history ==
    /\ pc = "done"
    /\ caller = "get_history"
    /\ history' = SortHistoryDesc(history)
    /\ report' = [kind |-> "get_history",
                  total_realized |->
                      CalculateRealizedTotal(history',
                                             IF filter_date = NoDate
                                             THEN Get(settings_dict, "initialRealizedPL",
                                                      Zero)
                                             ELSE Zero,
                                             filter_date),
                  daily_pnl |-> GetDailyPnl(history', 30),
                  trader_pnl |-> GetTraderPnl(history'),
                  product_pnl |-> GetProductPnl(history')]
    /\ pc' = "reported"
    /\ UNCHANGED <<ledger, market_prices, ttf_multiplier, caller, filter_date,
                   settings_dict, call_ttf_mult, active_trades, idx, temp_positions,
                   positions, previous>>

\* the streamlit page, after the replay: the totals, then the table of the
\* positions, which enters each position's average as its mark when it has none
streamlit_page ==
    /\ pc = "done"
    /\ caller = "streamlit"
    /\ history' = SortHistoryDesc(history)
    /\ market_prices' =
          [k \in DOMAIN market_prices \cup {ScopedKey(positions[i]) : i \in 1..Len(positions)} |->
              IF k \in DOMAIN market_prices THEN market_prices[k]
              ELSE LET i == CHOOSE j \in 1..Len(positions) : ScopedKey(positions[j]) = k
                   IN  positions[i].avg_price]
    /\ LET total_floating == CalculateTotalFloating(positions, market_prices,
                                                    settings_dict, ttf_multiplier)
           total_realized == CalculateRealizedTotal(history',
                                                    settings_dict.initialRealizedPL,
                                                    NoDate)
       IN  report' = [kind |-> "streamlit",
                      total_floating |-> total_floating,
                      total_realized |-> total_realized,
                      reconciled_net |->
                          RSub(RSub(RAdd(total_realized, total_floating),
                                    settings_dict.reconciliation.base),
                               settings_dict.reconciliation.other),
                      floating_pnl |->
                          [i \in 1..Len(positions) |->
                              CalculateFloatingPnl(positions[i],
                                                   market_prices'[ScopedKey(positions[i])],
                                                   settings_dict, ttf_multiplier)]]
    /\ pc' = "reported"
    /\ UNCHANGED <<ledger, ttf_multiplier, caller, filter_date, settings_dict,
                   call_ttf_mult, active_trades, idx, temp_positions, positions,
                   previous>>

\* the ledger's life: trades with any timestamp are loaded and reversed,
\* and the engine is called on the ledger with both fee buckets configured
Next ==
    \/ LoadTrade(LedgerTemplates)
    \/ reverse_trade
    \/ CalculateStart({ENGINE}, {FeeSettings}, {NoDate})
    \/ ReplayStep
    \/ CalculateReturn

Spec == Init /\ [][Next]_vars

\* the netting of one key
NextNetting ==
    \/ LoadTrade(NettingTemplates)
    \/ CalculateStart({ENGINE}, SettingsChoices, {NoDate})
    \/ ReplayStep
    \/ CalculateReturn

SpecNetting == Init /\ [][NextNetting]_vars

\* several instruments and products
NextKeys ==
    \/ LoadTrade(KeysTemplates)
    \/ CalculateStart({ENGINE}, SettingsChoices, {NoDate})
    \/ ReplayStep
    \/ CalculateReturn

SpecKeys == Init /\ [][NextKeys]_vars

\* quantities at the tolerance
NextTolerance ==
    \/ LoadTrade(ToleranceTemplates)
    \/ CalculateStart({ENGINE}, SettingsChoices, {NoDate})
    \/ ReplayStep
    \/ CalculateReturn

SpecTolerance == Init /\ [][NextTolerance]_vars

\* the valuation of the open positions: marks are set and the positions are
\* valued directly and by two endpoints
NextValuation ==
    \/ LoadTrade(ValuationTemplates)
    \/ set_mtm_price
    \/ CalculateStart({ENGINE}, ValuationSettings, {NoDate})
    \/ CalculateStart({"get_positions", "check_reconciliation"}, EndpointSettings,
                      {NoDate})
    \/ ReplayStep
    \/ CalculateReturn
    \/ calculate_floating_pnl
    \/ get_positions
    \/ check_reconciliation({Zero})

SpecValuation == Init /\ [][NextValuation]_vars

\* repeated calls on one engine whose field is written at any moment
NextCalls ==
    \/ LoadTrade(CallsTemplates)
    \/ SetTtfMultiplier
    \/ CalculateStart({ENGINE}, EndpointSettings, {NoDate})
    \/ Recalculate(EndpointSettings)
    \/ ReplayStep
    \/ CalculateReturn
    \/ calculate_floating_pnl

SpecCalls == Init /\ [][NextCalls]_vars

\* the realized totals: closures on two days are totalled and grouped
\* directly, by two endpoints and by the streamlit page
NextRealized ==
    \/ LoadTradeUpTo(RealizedTemplates, MaxRealizedTrades)
    \/ CalculateStart({ENGINE}, {FeeSettings}, {NoDate})
    \/ CalculateStart({"get_history", "check_reconciliation"}, EndpointSettings,
                      FilterDates)
    \/ CalculateStart({"streamlit"}, {DeskSettings}, FilterDates)
    \/ ReplayStep
    \/ CalculateReturn
    \/ calculate_realized_total
    \/ get_daily_pnl
    \/ get_history
    \/ check_reconciliation(StatementOffsets)
    \/ streamlit_page

SpecRealized == Init /\ [][NextRealized]_vars

\* the lookups of the policy: five kinds of product are closed and valued
\* under settings that lack a bucket or the scaling factor
NextLookups ==
    \/ LoadTrade(LookupTemplates)
    \/ CalculateStart({ENGINE}, LookupSettings, {NoDate})
    \/ ReplayStep
    \/ CalculateReturn
    \/ calculate_floating_pnl

SpecLookups == Init /\ [][NextLookups]_vars

\* pathological ledgers: any well-typed trades of one key are replayed and the
\* positions valued
NextTotality ==
    \/ LoadTrade(TotalityTemplates)
    \/ CalculateStart({ENGINE}, SettingsChoices, {NoDate})
    \/ ReplayStep
    \/ CalculateReturn
    \/ calculate_floating_pnl
    \/ calculate_total_floating

SpecTotality == Init /\ [][NextTotality]_vars

\* the inputs of the engine: a ledger in any order, a table of marks and the
\* settings are handed to the three functions
NextFrame ==
    \/ LoadTrade(LedgerTemplates)
    \/ set_mtm_price
    \/ CalculateStart({ENGINE}, {FeeSettings}, {NoDate})
    \/ ReplayStep
    \/ CalculateReturn
    \/ calculate_floating_pnl
    \/ calculate_total_floating

SpecFrame == Init /\ [][NextFrame]_vars

-----------------------------------------------------------------------------
(* Vocabulary of the properties.  The properties state what a replay step  *)
(* does in terms of the state before and after it, in the arithmetic of    *)
(* the specification text, not through the operators of the engine.        *)

\* the trade the next ReplayStep replays, and the one the last step replayed
CurTrade == active_trades[idx + 1]

LastTrade == active_trades[idx]

\* a ReplayStep is being taken
Replaying == pc = "replay" /\ idx < Len(active_trades) /\ idx' = idx + 1

\* quantity and cost basis held under a key (0 and 0 when there is no state)
Held(tp, key) ==
    IF \E i \in 1..Len(tp) : tp[i].key = key
    THEN LET i == CHOOSE j \in 1..Len(tp) : tp[j].key = key
         IN  [quantity |-> tp[i].quantity, total_value |-> tp[i].total_value]
    ELSE [quantity |-> Zero, total_value |-> Zero]

KeyOf(t) == t.trader \o "-" \o t.product \o "-" \o t.contract

\* what the key of the current trade holds before and after the step
Pre == Held(temp_positions, KeyOf(CurTrade))

Post == Held(temp_positions', KeyOf(CurTrade))

\* the locals as they were before the last step
Before ==
    ReplayAll(SubSeq(active_trades, 1, idx - 1), FeesOf(settings_dict),
              call_ttf_mult)

PreLast == Held(Before.tp, KeyOf(LastTrade))

Sign(q) == IF RLt(Zero, q) THEN 1 ELSE IF RLt(q, Zero) THEN 0 - 1 ELSE 0

\* strictly opposite signs, the held quantity being nonzero
IsOpposing(held, q) == Sign(held) # 0 /\ Sign(held) + Sign(q) = 0

MinAbs(a, b) == IF RLt(RAbs(a), RAbs(b)) THEN RAbs(a) ELSE RAbs(b)

\* a Regular trade meets an opposing position
Closing == Replaying /\ CurTrade.type = REGULAR /\ IsOpposing(Pre.quantity, CurTrade.quantity)

ClosedLast ==
    /\ pc = "replay" /\ idx >= 1
    /\ LastTrade.type = REGULAR
    /\ IsOpposing(PreLast.quantity, LastTrade.quantity)

\* every configured fee rate is 0
FeeFree ==
    \A k \in DOMAIN FeesOf(settings_dict) : FeesOf(settings_dict)[k] = Zero

\* the Fee/Multiplier Policy of the specification text
PolicyMultiplier(product) ==
    CASE product = "Brent" -> 1000
      [] product \in {"Henry Hub", "JKM"} -> 10000
      [] product = "TTF" ->
            10000 * (IF "ttfMultiplier" \in DOMAIN settings_dict
                     THEN settings_dict.ttfMultiplier ELSE ttf_multiplier)
      [] OTHER -> 1000

PolicyFeeRate(product) ==
    LET bucket == IF product = "Brent" THEN "brentPerBbl" ELSE "hhPerMMBtu"
    IN  IF "fees" \in DOMAIN settings_dict /\ bucket \in DOMAIN settings_dict.fees
        THEN settings_dict.fees[bucket]
        ELSE Zero

-----------------------------------------------------------------------------
(* C1: a trade of kind Adjustment never appends a closure entry, whatever  *)
(* its sign and magnitude against the position of its key; the step only   *)
(* adds quantity*price to total_value and quantity to quantity.            *)
C1_AdjustmentNeverCloses ==
    [][(Replaying /\ CurTrade.type = ADJUSTMENT) =>
          /\ history' = history
          /\ Post.total_value =
                RAdd(Pre.total_value, RMul(CurTrade.quantity, CurTrade.price))
          /\ Post.quantity = RAdd(Pre.quantity, CurTrade.quantity)]_vars

\* an Adjustment larger than the opposing position it met has been replayed
C1_Witness ==
    /\ pc = "replay" /\ idx >= 1
    /\ LastTrade.type = ADJUSTMENT
    /\ IsOpposing(PreLast.quantity, LastTrade.quantity)
    /\ RLt(RAbs(PreLast.quantity), RAbs(LastTrade.quantity))
    /\ history = Before.h

(* C2: a Regular opposing trade that leaves more than the tolerance of the *)
(* position (a partial close) leaves avg_price = total_value / quantity    *)
(* unchanged.                                                              *)
C2_PartialClosePreservesAvgPrice ==
    [][(Closing /\ RLt(Tolerance, RSub(RAbs(Pre.quantity),
                                       MinAbs(Pre.quantity, CurTrade.quantity)))) =>
          RDiv(Post.total_value, Post.quantity) =
             RDiv(Pre.total_value, Pre.quantity)]_vars

\* Scenario B: +10 @ 80 then -4 @ 85 leaves +6 with total_value 480
C2_Witness ==
    /\ ClosedLast /\ idx = 2
    /\ active_trades[1].quantity = R(10) /\ active_trades[1].price = R(80)
    /\ LastTrade.quantity = R(0 - 4) /\ LastTrade.price = R(85)
    /\ Held(temp_positions, KeyOf(LastTrade)) =
          [quantity |-> R(6), total_value |-> R(480)]
    /\ RDiv(R(480), R(6)) = R(80)

(* C3: a Regular trade q @ p followed by a Regular trade -q @ p on the     *)
(* same key, with fee rate 0, yields one closure entry with realized_pl 0  *)
(* and the key is absent from the positions returned.                      *)
RoundTrip ==
    /\ Len(active_trades) >= 2
    /\ KeyOf(active_trades[1]) = KeyOf(active_trades[2])
    /\ active_trades[1].type = REGULAR /\ active_trades[2].type = REGULAR
    /\ active_trades[1].quantity # Zero
    /\ active_trades[2].quantity = RNeg(active_trades[1].quantity)
    /\ active_trades[2].price = active_trades[1].price
    /\ FeeFree

C4_ClosureEntry ==
    [][Closing =>
          LET close_qty == MinAbs(Pre.quantity, CurTrade.quantity)
              open_price == RDiv(Pre.total_value, Pre.quantity)
              mult == R(PolicyMultiplier(CurTrade.product))
              fee == RMul(RMul(RMul(close_qty, mult), R(2)),
                          PolicyFeeRate(CurTrade.product))
              e == history'[Len(history')]
          IN  /\ Len(history') = Len(history) + 1
              /\ SubSeq(history', 1, Len(history)) = history
              /\ RAbs(e.closed_quantity) = close_qty
              /\ e.open_price = open_price
              /\ e.close_price = CurTrade.price
              /\ e.multiplier = mult
              /\ e.fee = fee
              /\ e.realized_pl =
                    RSub(RMul(RMul(RMul(RSub(CurTrade.price, open_price), close_qty),
                                   R(Sign(Pre.quantity))), mult), fee)]_vars

\* Scenario A: +10 @ 80 then -10 @ 85 on Brent, no fee: realized_pl 50000
C4_Witness ==
    /\ ClosedLast /\ idx = 2
    /\ active_trades[1].product = "Brent"
    /\ active_trades[1].quantity = R(10) /\ active_trades[1].price = R(80)
    /\ LastTrade.product = "Brent"
    /\ LastTrade.quantity = R(0 - 10) /\ LastTrade.price = R(85)
    /\ FeeFree
    /\ Len(history) = 1
    /\ history[1].realized_pl = R(50000)
    /\ history[1].multiplier = R(1000)

(* C5: the closed_quantity of a closure entry is positive exactly when the *)
(* position before the trade was short, negative exactly when it was long, *)
(* and its magnitude is close_qty.                                         *)
C5_ClosedQuantitySign ==
    [][(Replaying /\ Len(history') = Len(history) + 1) =>
          LET e == history'[Len(history')]
          IN  /\ RLt(Zero, e.closed_quantity) <=> RLt(Pre.quantity, Zero)
              /\ RLt(e.closed_quantity, Zero) <=> RLt(Zero, Pre.quantity)
              /\ RAbs(e.closed_quantity) =
                    MinAbs(Pre.quantity, CurTrade.quantity)]_vars

\* a short position has been closed: the entry's closed_quantity is positive
C5_Witness ==
    /\ ClosedLast
    /\ RLt(PreLast.quantity, Zero)
    /\ Len(history) = Len(Before.h) + 1
    /\ RLt(Zero, history[Len(history)].closed_quantity)

(* C6: a Regular opposing trade larger than the position appends exactly   *)
(* one closure entry, for close_qty = |existing quantity|, and leaves      *)
(* quantity = existing + trade quantity (sign flipped), total_value = 0.   *)
C6_ClosingThroughZero ==
    [][(Closing /\ RLt(RAbs(Pre.quantity), RAbs(CurTrade.quantity))) =>
          /\ Len(history') = Len(history) + 1
          /\ SubSeq(history', 1, Len(history)) = history
          /\ RAbs(history'[Len(history')].closed_quantity) = RAbs(Pre.quantity)
          /\ Post.quantity = RAdd(Pre.quantity, CurTrade.quantity)
          /\ Sign(Post.quantity) = 0 - Sign(Pre.quantity)
          /\ Post.total_value = Zero]_vars

\* +4 then -10: the position is -6 at cost basis 0
C6_Witness ==
    /\ ClosedLast
    /\ PreLast.quantity = R(4)
    /\ LastTrade.quantity = R(0 - 10)
    /\ Held(temp_positions, KeyOf(LastTrade)) =
          [quantity |-> R(0 - 6), total_value |-> Zero]
    /\ Len(history) = Len(Before.h) + 1

TripleOf(r) == <<r.trader, r.product, r.contract>>

\* the position state a replayed trade updated
StateIndex(t) ==
    CHOOSE n \in 1..Len(temp_positions) : temp_positions[n].key = PositionKey(t)

C8_PositionIdentityIsTriple ==
    pc \in {"replay", "done"} =>
        /\ \A i, j \in 1..idx :
              (StateIndex(active_trades[i]) = StateIndex(active_trades[j]))
                 <=> (TripleOf(active_trades[i]) = TripleOf(active_trades[j]))
        /\ \A m, n \in 1..Len(temp_positions) :
              TripleOf(temp_positions[m]) = TripleOf(temp_positions[n]) => m = n

(* C9: trades with status Reversed have no effect: the call returns what   *)
(* it returns on the ledger with the Reversed trades removed, and flipping *)
(* one Active trade to Reversed gives the output of the ledger without it. *)
Output == [positions |-> positions, history |-> history]

WithoutReversed(trades) == SelectSeq(trades, LAMBDA t : t.status # REVERSED)

Remove(seq, i) == SubSeq(seq, 1, i - 1) \o SubSeq(seq, i + 1, Len(seq))

C9_ReversedHaveNoEffect ==
    pc = "done" =>
        /\ Output = CalculatePositions(WithoutReversed(ledger), settings_dict,
                                       ttf_multiplier)
        /\ \A i \in 1..Len(ledger) :
              ledger[i].status = ACTIVE =>
                 CalculatePositions([ledger EXCEPT ![i].status = REVERSED],
                                    settings_dict, ttf_multiplier)
                    = CalculatePositions(Remove(ledger, i), settings_dict,
                                         ttf_multiplier)

\* a trade of the ledger is Reversed, and the output would be another one
\* were it Active
C9_Witness ==
    /\ pc = "done"
    /\ history # <<>>
    /\ \E i \in 1..Len(ledger) :
          /\ ledger[i].status = REVERSED
          /\ Output # CalculatePositions([ledger EXCEPT ![i].status = ACTIVE],
                                         settings_dict, ttf_multiplier)

(* C10: the Active trades are replayed in non-decreasing timestamp order   *)
(* whatever the order of the input list, trades of equal timestamp in the  *)
(* order of the input list; a permutation of the input that keeps the      *)
(* relative order of the trades of equal timestamp leaves the output       *)
(* unchanged.                                                              *)
Orderings(n) ==
    {f \in [1..n -> 1..n] : \A i, j \in 1..n : f[i] = f[j] => i = j}

Permuted(trades, f) == [k \in 1..Len(trades) |-> trades[f[k]]]

KeepsTieOrder(trades, f) ==
    \A k, l \in 1..Len(trades) :
        (k < l /\ trades[f[k]].date = trades[f[l]].date) => f[k] < f[l]

\* the place of a trade in the input list (the ledger numbers its records)
InputPlace(t) == CHOOSE i \in 1..Len(ledger) : ledger[i].id = t.id

C10_ReplayOrder ==
    pc \in {"replay", "done"} =>
        /\ Len(active_trades) =
              Cardinality({i \in 1..Len(ledger) : ledger[i].status = ACTIVE})
        /\ \A a \in 1..Len(active_trades) :
              \E i \in 1..Len(ledger) :
                 ledger[i].status = ACTIVE /\ ledger[i] = active_trades[a]
        /\ \A a, b \in 1..Len(active_trades) :
              a < b =>
                 /\ DateLe(active_trades[a].date, active_trades[b].date)
                 /\ active_trades[a].date = active_trades[b].date =>
                       InputPlace(active_trades[a]) < InputPlace(active_trades[b])
        /\ pc = "done" =>
              \A f \in Orderings(Len(ledger)) :
                 KeepsTieOrder(ledger, f) =>
                    CalculatePositions(Permuted(ledger, f), settings_dict,
                                       ttf_multiplier) = Output

\* the ledger holds a later trade before an earlier one and two trades of
\* one timestamp, and the order of the replay decides the output
C10_Witness ==
    /\ pc = "done"
    /\ \E i, j \in 1..Len(ledger) :
          i < j /\ ledger[i].status = ACTIVE /\ ledger[j].status = ACTIVE
          /\ ~DateLe(ledger[i].date, ledger[j].date)
    /\ \E i, j \in 1..Len(ledger) :
          i < j /\ ledger[i].status = ACTIVE /\ ledger[j].status = ACTIVE
          /\ ledger[i].date = ledger[j].date
    /\ \E f \in Orderings(Len(ledger)) :
          CalculatePositions(Permuted(ledger, f), settings_dict, ttf_multiplier)
             # Output

-----------------------------------------------------------------------------
(* C11: two calls of calculate_positions on the same trade snapshot with   *)
(* the same configuration (the same settings_dict and the same scaling     *)
(* factor in effect) return the same positions and the same history,       *)
(* whatever was called in between: other configurations, valuations of     *)
(* positions, writes of the engine's field.                                *)

\* the first call on this ledger had the arguments of the call that has just
\* returned
SameArguments ==
    /\ pc = "done"
    /\ previous # <<>>
    /\ previous[1].trades = ledger
    /\ previous[1].settings_dict = settings_dict

SameConfiguration == SameArguments /\ previous[1].call_ttf_mult = call_ttf_mult

-----------------------------------------------------------------------------
(* C12: the result of calculate_positions depends on the arguments of the  *)
(* call only: two calls with the same trades and the same settings_dict    *)
(* return the same positions and history, whatever is written to the       *)
(* engine's ttf_multiplier field; and the value calculate_floating_pnl     *)
(* returned is the one it returns under any value of that field.           *)

C12_NoInterference ==
    /\ SameArguments =>
          /\ previous[1].positions = positions
          /\ previous[1].history = history
    /\ report.kind = "calculate_floating_pnl" =>
          \A v \in TtfInputs :
              report.net = CalculateFloatingPnl(report.position, report.mtm_price,
                                                settings_dict, v)

-----------------------------------------------------------------------------
(* Vocabulary of the valuation properties.                                 *)

\* (mark * quantity - total_value) * multiplier - |quantity| * multiplier * rate
FloatingAt(pos, mark) ==
    RSub(RMul(RSub(RMul(mark, pos.quantity), pos.total_value),
              R(PolicyMultiplier(pos.product))),
         RMul(RMul(RAbs(pos.quantity), R(PolicyMultiplier(pos.product))),
              PolicyFeeRate(pos.product)))

\* -(|quantity| * multiplier * rate)
FeeOnly(pos) ==
    RNeg(RMul(RMul(RAbs(pos.quantity), R(PolicyMultiplier(pos.product))),
              PolicyFeeRate(pos.product)))

HasPrice(product, contract) == (product \o "::" \o contract) \in DOMAIN market_prices

PriceOf(product, contract) == market_prices[product \o "::" \o contract]

\* no price at any tier of the lookup
Unmarked(pos) ==
    /\ ~HasPrice(pos.product, pos.contract)
    /\ ~HasPrice("GENERIC", pos.contract)

RECURSIVE SumOf(_)
SumOf(values) ==
    IF values = <<>> THEN Zero ELSE RAdd(values[1], SumOf(Tail(values)))

Valued == report.kind = "calculate_floating_pnl"

Listed == report.kind = "get_positions"

Reconciled == report.kind = "check_reconciliation"

-----------------------------------------------------------------------------
(* C13: calculate_floating_pnl returns (mark * quantity - total_value) *   *)
(* multiplier - |quantity| * multiplier * fee_rate(product), the           *)
(* multiplier being the effective one of the policy (for TTF 10000 times   *)
(* the scaling factor in effect): in a direct call at any mark and in      *)
(* every per-position value of the two endpoints.                          *)

C13_FloatingFormula ==
    /\ Valued => report.net = FloatingAt(report.position, report.mtm_price)
    /\ Listed =>
          \A i \in 1..Len(report.positions) :
              report.positions[i].floating_pnl =
                  FloatingAt(report.positions[i].pos, report.positions[i].mtm)
    /\ Reconciled =>
          \A i \in 1..Len(positions) :
              report.data.position_details[i].floating_pnl =
                  FloatingAt(positions[i], report.data.position_details[i].mtm)

\* a short TTF position valued off its cost at the effective multiplier
\* 34,120,000
C13_Witness ==
    /\ Valued
    /\ report.position.product = "TTF"
    /\ PolicyMultiplier("TTF") = 34120000
    /\ RLt(report.position.quantity, Zero)
    /\ report.mtm_price # report.position.avg_price
    /\ report.net = FloatingAt(report.position, report.mtm_price)

-----------------------------------------------------------------------------
(* C14: a position marked at its own avg_price = total_value / quantity is *)
(* valued at -(|quantity| * multiplier * fee_rate(product)); a position    *)
(* without a price at any tier of the lookup gets this value, per position *)
(* in both endpoints and in the reconciliation total when no position has  *)
(* a price.                                                                *)

-----------------------------------------------------------------------------
(* C15: every floating value is taken at the mark resolved in this order:  *)
(* the price of the product and contract if present, else the generic      *)
(* price of the contract if present, else the position's avg_price; so the *)
(* positions endpoint's total_floating and the reconciliation's            *)
(* floating_total are both the sum of the positions' values at that mark.  *)

ThreeTierMark(pos) ==
    IF HasPrice(pos.product, pos.contract) THEN PriceOf(pos.product, pos.contract)
    ELSE IF HasPrice("GENERIC", pos.contract) THEN PriceOf("GENERIC", pos.contract)
    ELSE pos.avg_price

TotalAtThreeTierMark ==
    SumOf([i \in 1..Len(positions) |-> FloatingAt(positions[i],
                                                  ThreeTierMark(positions[i]))])

C15_SameLookup ==
    /\ Listed =>
          /\ \A i \in 1..Len(positions) :
                report.positions[i].mtm = ThreeTierMark(positions[i])
          /\ report.total_floating = TotalAtThreeTierMark
    /\ Reconciled =>
          /\ \A i \in 1..Len(positions) :
                report.data.position_details[i].mtm = ThreeTierMark(positions[i])
          /\ report.data.floating_total = TotalAtThreeTierMark

-----------------------------------------------------------------------------
(* Vocabulary of the properties of the realized totals.                    *)

\* the sum of realized_pl over the entries of hist on or after a day
RealizedFrom(hist, day) ==
    SumOf([i \in 1..Len(SelectSeq(hist, LAMBDA h : h.date[1] >= day)) |->
              SelectSeq(hist, LAMBDA h : h.date[1] >= day)[i].realized_pl])

RealizedAll(hist) == SumOf([i \in 1..Len(hist) |-> hist[i].realized_pl])

InitialBalance ==
    IF "initialRealizedPL" \in DOMAIN settings_dict
    THEN settings_dict.initialRealizedPL ELSE Zero

\* the cumulative total of a period: the carry balance enters only when the
\* period has no start date
CumulativeTotal(hist, initial, cutoff) ==
    IF cutoff = NoDate THEN RAdd(initial, RealizedAll(hist))
    ELSE RealizedFrom(hist, cutoff[1])

-----------------------------------------------------------------------------
(* C16: the initial carry balance is part of the cumulative realized total *)
(* only when no start date is applied; with a start date the total is the  *)
(* sum of the closures from that date alone: in calculate_realized_total   *)
(* itself, in the history and reconciliation endpoints and on the          *)
(* streamlit page, which restricts its period by a start date.             *)

C16_InitialOnlyUnfiltered ==
    /\ report.kind = "calculate_realized_total" =>
          report.total = CumulativeTotal(history, report.initial_pl,
                                         report.filter_date)
    /\ report.kind = "get_history" =>
          report.total_realized = CumulativeTotal(history, InitialBalance, filter_date)
    /\ Reconciled =>
          report.data.realized_total =
              CumulativeTotal(history, InitialBalance, filter_date)
    /\ report.kind = "streamlit" =>
          report.total_realized = CumulativeTotal(history, InitialBalance, filter_date)

-----------------------------------------------------------------------------
(* C17: get_trader_pnl and get_product_pnl map each trader (product) of    *)
(* the history to the sum of realized_pl of exactly the entries with that  *)
(* trader (product); get_daily_pnl(history, N) maps each of the N most     *)
(* recent days that have entries to the sum of that day's entries and      *)
(* holds no other day.                                                     *)

\* the sum of realized_pl over the entries of hist that pass Test
RealizedWhere(hist, Test(_)) ==
    SumOf([i \in 1..Len(SelectSeq(hist, Test)) |->
              SelectSeq(hist, Test)[i].realized_pl])

\* a dict whose keys are exactly the given ones, each once
HasKeys(dict, keys) ==
    /\ {dict[i].k : i \in 1..Len(dict)} = keys
    /\ \A i, j \in 1..Len(dict) : dict[i].k = dict[j].k => i = j

DaysOf(hist) == {hist[i].date[1] : i \in 1..Len(hist)}

\* the n latest days of the history
LatestDays(hist, n) ==
    {d \in DaysOf(hist) : Cardinality({e \in DaysOf(hist) : e > d}) < n}

IsTraderPnl(dict, hist) ==
    /\ HasKeys(dict, {hist[i].trader : i \in 1..Len(hist)})
    /\ \A i \in 1..Len(dict) :
          dict[i].v = RealizedWhere(hist, LAMBDA h : h.trader = dict[i].k)

IsProductPnl(dict, hist) ==
    /\ HasKeys(dict, {hist[i].product : i \in 1..Len(hist)})
    /\ \A i \in 1..Len(dict) :
          dict[i].v = RealizedWhere(hist, LAMBDA h : h.product = dict[i].k)

IsDailyPnl(dict, hist, n) ==
    /\ HasKeys(dict, {<<d>> : d \in LatestDays(hist, n)})
    /\ \A i \in 1..Len(dict) :
          dict[i].v = RealizedWhere(hist, LAMBDA h : h.date[1] = dict[i].k[1])

C17_GroupedSums ==
    /\ report.kind = "get_daily_pnl" =>
          IsDailyPnl(report.daily_pnl, history, report.days)
    /\ report.kind = "get_history" =>
          /\ IsTraderPnl(report.trader_pnl, history)
          /\ IsProductPnl(report.product_pnl, history)
          /\ IsDailyPnl(report.daily_pnl, history, 30)

\* the history endpoint groups two closures of one trader made on two days
C17_Witness ==
    /\ report.kind = "get_history"
    /\ Len(report.daily_pnl) = 2
    /\ \E i, j \in 1..Len(history) :
          /\ i # j
          /\ history[i].trader = history[j].trader
          /\ history[i].date # history[j].date
    /\ IsTraderPnl(report.trader_pnl, history)

-----------------------------------------------------------------------------
(* C18: check_reconciliation reports net_value = realized_total +          *)
(* floating_total - reconciliation_base - reconciliation_other and diff =  *)
(* statement_value - net_value, and is_match is true exactly when          *)
(* |diff| < 1; a difference of exactly 1 is a mismatch.                    *)

\* a constant of the reconciliation settings, 0 when not configured
Adjustment(name) ==
    IF "reconciliation" \in DOMAIN settings_dict
       /\ name \in DOMAIN settings_dict.reconciliation
    THEN settings_dict.reconciliation[name] ELSE Zero

\* -1 < x < 1
WithinOne(x) == x.n < x.d /\ 0 - x.n < x.d

C18_Reconciliation ==
    Reconciled =>
        /\ report.net_value =
               RSub(RSub(RAdd(report.data.realized_total, report.data.floating_total),
                         Adjustment("base")),
                    Adjustment("other"))
        /\ report.diff = RSub(report.statement_value, report.net_value)
        /\ report.is_match <=> WithinOne(report.diff)

\* a statement exactly 1 above a net value made of closures, an open
\* position's fee and the two adjustments is reported as a mismatch
C18_Witness ==
    /\ Reconciled
    /\ report.diff = R(1)
    /\ ~report.is_match
    /\ history # <<>>
    /\ report.data.floating_total # Zero
    /\ Adjustment("base") # Zero
    /\ Adjustment("other") # Zero

-----------------------------------------------------------------------------
(* C19: the contract multiplier is a lookup by product: 1000 for Brent,    *)
(* 10000 for Henry Hub and JKM, 10000 times the TTF scaling factor for     *)
(* TTF (the factor of settings_dict, 3412 when it supplies none), 1000 for *)
(* any other product.  Every closure entry carries this multiplier and     *)
(* every valuation uses it; no product makes the lookup fail.              *)

ScalingFactor ==
    IF "ttfMultiplier" \in DOMAIN settings_dict
    THEN settings_dict.ttfMultiplier ELSE 3412

LookedUpMultiplier(product) ==
    IF product = "Brent" THEN 1000
    ELSE IF product = "Henry Hub" \/ product = "JKM" THEN 10000
    ELSE IF product = "TTF" THEN 10000 * ScalingFactor
    ELSE 1000

\* the gross value of a position at a mark, per unit of multiplier
PerUnit(pos, mark) == RSub(RMul(mark, pos.quantity), pos.total_value)

C19_MultiplierLookup ==
    /\ \A i \in 1..Len(history) :
          history[i].multiplier = R(LookedUpMultiplier(history[i].product))
    /\ (Valued /\ PolicyFeeRate(report.position.product) = Zero) =>
          report.net = RMul(PerUnit(report.position, report.mtm_price),
                            R(LookedUpMultiplier(report.position.product)))

\* a product outside the table was closed at multiplier 1000 and a TTF
\* position is valued at 34,120,000, the settings supplying no factor
C19_Witness ==
    /\ Valued
    /\ "ttfMultiplier" \notin DOMAIN settings_dict
    /\ report.position.product = "TTF"
    /\ PolicyFeeRate("TTF") = Zero
    /\ report.net # Zero
    /\ report.net = RMul(PerUnit(report.position, report.mtm_price), R(34120000))
    /\ \E i \in 1..Len(history) :
          /\ history[i].product = "Dubai"
          /\ history[i].multiplier = R(1000)

-----------------------------------------------------------------------------
(* C20: the fee rate has two buckets, the Brent rate for Brent and one     *)
(* shared rate for every other product; a bucket missing from the          *)
(* configuration is rate 0.  A closure is charged 2 * |closed quantity| *  *)
(* multiplier * rate and a valuation |quantity| * multiplier * rate of the *)
(* product's bucket, so both are fee-free when the bucket is missing.      *)

BucketOf(product) == IF product = "Brent" THEN "brentPerBbl" ELSE "hhPerMMBtu"

Configured(bucket) ==
    "fees" \in DOMAIN settings_dict /\ bucket \in DOMAIN settings_dict.fees

BucketRate(product) ==
    IF Configured(BucketOf(product)) THEN settings_dict.fees[BucketOf(product)]
    ELSE Zero

\* (close_price - open_price) * lots closed in the held direction * multiplier
GrossOf(h) ==
    RMul(RMul(RSub(h.close_price, h.open_price), RNeg(h.closed_quantity)),
         h.multiplier)

C20_TwoBuckets ==
    /\ \A i \in 1..Len(history) :
          /\ history[i].fee =
                 RMul(RMul(RMul(R(2), RAbs(history[i].closed_quantity)),
                           history[i].multiplier),
                      BucketRate(history[i].product))
          /\ history[i].realized_pl = RSub(GrossOf(history[i]), history[i].fee)
          /\ ~Configured(BucketOf(history[i].product)) =>
                 /\ history[i].fee = Zero
                 /\ history[i].realized_pl = GrossOf(history[i])
    /\ Valued =>
          LET gross == RMul(PerUnit(report.position, report.mtm_price),
                            R(LookedUpMultiplier(report.position.product)))
              fee == RMul(RMul(RAbs(report.position.quantity),
                               R(LookedUpMultiplier(report.position.product))),
                          BucketRate(report.position.product))
          IN  /\ report.net = RSub(gross, fee)
              /\ ~Configured(BucketOf(report.position.product)) => report.net = gross

\* under settings with the shared bucket only, a closure of a product outside
\* the table paid the shared rate and an open Brent position is valued
\* without fee
C20_Witness ==
    /\ Valued
    /\ ~Configured("brentPerBbl")
    /\ report.position.product = "Brent"
    /\ report.net = RMul(PerUnit(report.position, report.mtm_price), R(1000))
    /\ report.net # Zero
    /\ \E i \in 1..Len(history) :
          /\ history[i].product = "Dubai"
          /\ history[i].fee # Zero
          /\ history[i].fee = RMul(R(2000), settings_dict.fees.hhPerMMBtu)

-----------------------------------------------------------------------------
(* C21: doubling the configured TTF scaling factor (the ttfMultiplier of   *)
(* settings_dict, or the engine's own when the settings supply none), all  *)
(* other inputs fixed, doubles the realized_pl and the fee of every TTF    *)
(* closure entry and the floating PnL of every TTF position, and leaves    *)
(* quantities, avg_prices and every value of another product unchanged.    *)

\* the settings with the scaling factor doubled where they supply one
DoubledSettings(sd) ==
    IF "ttfMultiplier" \in DOMAIN sd
    THEN [sd EXCEPT !.ttfMultiplier = 2 * sd.ttfMultiplier]
    ELSE sd

Twice(x) == RMul(R(2), x)

\* closure entry e2 is entry e1 at the doubled factor
DoubledEntry(e1, e2) ==
    /\ e2.date = e1.date /\ e2.trader = e1.trader
    /\ e2.product = e1.product /\ e2.contract = e1.contract
    /\ e2.closed_quantity = e1.closed_quantity
    /\ e2.open_price = e1.open_price /\ e2.close_price = e1.close_price
    /\ IF e1.product = "TTF"
       THEN /\ e2.realized_pl = Twice(e1.realized_pl)
            /\ e2.fee = Twice(e1.fee)
       ELSE /\ e2.realized_pl = e1.realized_pl
            /\ e2.fee = e1.fee
            /\ e2.multiplier = e1.multiplier

C21_TtfScaling ==
    LET doubled == CalculatePositions(ledger, DoubledSettings(settings_dict),
                                      2 * ttf_multiplier)
    IN  /\ (pc = "done" /\ caller = ENGINE) =>
              /\ Len(doubled.history) = Len(history)
              /\ \A i \in 1..Len(history) : DoubledEntry(history[i], doubled.history[i])
              /\ doubled.positions = positions
        /\ Valued =>
              LET net2 == CalculateFloatingPnl(report.position, report.mtm_price,
                                               DoubledSettings(settings_dict),
                                               2 * report.self_ttf)
              IN  net2 = IF report.position.product = "TTF"
                         THEN Twice(report.net) ELSE report.net

\* a TTF closure with a gain and a fee, a TTF position valued off its cost,
\* and a Brent position in the same ledger
C21_Witness ==
    /\ Valued
    /\ report.position.product = "TTF"
    /\ report.net # Zero
    /\ \E i \in 1..Len(history) :
          /\ history[i].product = "TTF"
          /\ history[i].fee # Zero
          /\ history[i].realized_pl # Zero
    /\ \E i \in 1..Len(positions) : positions[i].product = "Brent"

-----------------------------------------------------------------------------
(* C22: on every well-typed trade sequence (the empty ledger, single       *)
(* trades, zero prices, zero quantities, both kinds) and every             *)
(* configuration, calculate_positions, calculate_floating_pnl and          *)
(* calculate_total_floating return a value and never raise: no division    *)
(* by a zero quantity is evaluated, in the loop, in the output filter or   *)
(* in the valuation.                                                       *)

\* a float that came out of defined arithmetic
IsNumber(x) == x.d > 0

C22_Total ==
    /\ pc # "raised"
    /\ report.kind # "raised"
    /\ (pc = "replay" /\ idx < Len(active_trades)) =>
          Zero \notin Divisors(PositionFor(temp_positions, CurTrade), CurTrade)
    /\ \A i \in 1..Len(temp_positions) :
          IsNumber(temp_positions[i].quantity) /\ IsNumber(temp_positions[i].total_value)
    /\ \A i \in 1..Len(history) :
          IsNumber(history[i].open_price) /\ IsNumber(history[i].realized_pl)
    /\ \A i \in 1..Len(positions) : IsNumber(positions[i].avg_price)
    /\ Valued => IsNumber(report.net)
    /\ report.kind = "calculate_total_floating" => IsNumber(report.total)

\* a ledger holding a zero-price trade and a zero-quantity trade was replayed
\* through a closure and its open position valued
C22_Witness ==
    /\ report.kind = "calculate_total_floating"
    /\ \E i \in 1..Len(ledger) : ledger[i].quantity = Zero
    /\ \E i \in 1..Len(ledger) : ledger[i].price = Zero /\ ledger[i].quantity # Zero
    /\ history # <<>>
    /\ positions # <<>>

-----------------------------------------------------------------------------
(* Vocabulary of the properties of whole replays.                          *)

\* the sum of the signed quantities of the first n replayed trades on a key
RECURSIVE NetQuantity(_, _)
NetQuantity(n, key) ==
    IF n = 0 THEN Zero
    ELSE IF KeyOf(active_trades[n]) = key
    THEN RAdd(NetQuantity(n - 1, key), active_trades[n].quantity)
    ELSE NetQuantity(n - 1, key)

\* the k-th replayed trade was Regular and arrived opposing a nonzero position
ArrivedOpposing(k) ==
    /\ active_trades[k].type = REGULAR
    /\ IsOpposing(NetQuantity(k - 1, KeyOf(active_trades[k])), active_trades[k].quantity)

-----------------------------------------------------------------------------
(* C23: a trade that meets a zero existing quantity or has the sign of the *)
(* existing quantity, of either kind, appends no closure entry and does    *)
(* exactly total_value += quantity * price and quantity += quantity; so    *)
(* the number of closure entries of a replay is the number of Regular      *)
(* trades that arrived opposing a nonzero position.                        *)

Opening == Replaying /\ (Pre.quantity = Zero \/ Sign(Pre.quantity) = Sign(CurTrade.quantity))

C23_OpeningAdds ==
    /\ [][Opening =>
             /\ history' = history
             /\ Post.total_value =
                   RAdd(Pre.total_value, RMul(CurTrade.quantity, CurTrade.price))
             /\ Post.quantity = RAdd(Pre.quantity, CurTrade.quantity)]_vars
    /\ [](pc \in {"replay", "done"} =>
             Len(history) = Cardinality({k \in 1..idx : ArrivedOpposing(k)}))

\* after a closure, an Adjustment of the sign of the position was added to it
C23_Witness ==
    /\ pc = "replay" /\ idx >= 1
    /\ LastTrade.type = ADJUSTMENT
    /\ PreLast.quantity # Zero
    /\ Sign(PreLast.quantity) = Sign(LastTrade.quantity)
    /\ Len(history) = 1
    /\ history = Before.h
    /\ Held(temp_positions, KeyOf(LastTrade)).total_value =
          RAdd(PreLast.total_value, RMul(LastTrade.quantity, LastTrade.price))
    /\ PreLast.total_value # Held(temp_positions, KeyOf(LastTrade)).total_value

-----------------------------------------------------------------------------
(* C24: the closure history is append-only and in replay order: a replay   *)
(* step leaves the entries already in the list as they are and where they  *)
(* are, so the history of the first k replayed trades is a prefix of the   *)
(* history of the first k + 1, and the entries are in non-decreasing       *)
(* timestamp order.                                                        *)

\* the timestamp an entry's date string stands for
EntryTime(e) == <<e.date[1], IF Len(e.date) = 2 THEN e.date[2] ELSE 0>>

IsPrefix(s, t) == Len(s) <= Len(t) /\ SubSeq(t, 1, Len(s)) = s

\* the history returned for the first k trades of the replay order
HistoryOfFirst(k) ==
    CalculatePositions(SubSeq(active_trades, 1, k), settings_dict, call_ttf_mult).history

C24_AppendOnly ==
    /\ [][Replaying => IsPrefix(history, history')]_vars
    /\ [](pc = "done" =>
             /\ HistoryOfFirst(Len(active_trades)) = history
             /\ \A k \in 0..(Len(active_trades) - 1) :
                   IsPrefix(HistoryOfFirst(k), HistoryOfFirst(k + 1)))
    /\ [](pc \in {"replay", "done"} =>
             \A i, j \in 1..Len(history) :
                 i < j => DateLe(EntryTime(history[i]), EntryTime(history[j])))

\* two closures of two days, from a ledger that lists the later trade first
C24_Witness ==
    /\ pc = "done"
    /\ Len(history) = 2
    /\ history[1].date # history[2].date
    /\ \E i, j \in 1..Len(ledger) :
          i < j /\ ledger[i].status = ACTIVE /\ ledger[j].status = ACTIVE
          /\ ~DateLe(ledger[i].date, ledger[j].date)

-----------------------------------------------------------------------------
(* C25: with a cutoff date D supplied, the cumulative realized total the   *)
(* history and reconciliation endpoints report is the sum of realized_pl   *)
(* over the closure entries dated at or after D in the history of the      *)
(* replay of the full Active ledger: a position opened before D and closed *)
(* at or after D contributes its closure.                                  *)

\* the history of the replay of every Active trade of the ledger
FullHistory == CalculatePositions(ledger, settings_dict, ttf_multiplier).history

C25_CutoffOnFullHistory ==
    /\ (report.kind = "get_history" /\ filter_date # NoDate) =>
          report.total_realized = RealizedFrom(FullHistory, filter_date[1])
    /\ (Reconciled /\ filter_date # NoDate) =>
          report.data.realized_total = RealizedFrom(FullHistory, filter_date[1])

-----------------------------------------------------------------------------
(* C26: calculate_positions, calculate_floating_pnl and                    *)
(* calculate_total_floating leave their inputs unchanged: the caller's     *)
(* trade list keeps its order and length and every trade its fields, and   *)
(* the settings, the market prices and the position records passed in are  *)
(* not modified.                                                           *)

\* a step of calculate_positions: its entry, an iteration, its return
EngineStep == pc' = "replay" \/ pc = "replay"

\* a call of one of the two valuation functions
ValuationStep ==
    /\ report' # report
    /\ report'.kind \in {"calculate_floating_pnl", "calculate_total_floating"}

C26_InputsUnchanged ==
    [][/\ EngineStep =>
             /\ ledger' = ledger
             /\ market_prices' = market_prices
             /\ pc = "replay" => settings_dict' = settings_dict
       /\ ValuationStep =>
             /\ ledger' = ledger
             /\ market_prices' = market_prices
             /\ settings_dict' = settings_dict
             /\ positions' = positions]_vars

\* a ledger that lists a later trade before an earlier one was replayed in
\* date order and its position valued from a table that holds marks
C26_Witness ==
    /\ report.kind = "calculate_total_floating"
    /\ market_prices # <<>>
    /\ positions # <<>>
    /\ active_trades # ledger
    /\ \E i, j \in 1..Len(ledger) : i < j /\ ~DateLe(ledger[i].date, ledger[j].date)

-----------------------------------------------------------------------------
(* C27: after the replay of any prefix of the ledger, the quantity held    *)
(* for each key (trader, product, contract) is the sum of the signed       *)
(* quantities of the Active trades replayed so far on that key, whatever   *)
(* their kind and whether they opened, added, closed, over-closed or       *)
(* adjusted.                                                               *)

\* the quantity of the position state of a triple, 0 when it has none
QuantityHeld(triple) ==
    IF \E i \in 1..Len(temp_positions) : TripleOf(temp_positions[i]) = triple
    THEN LET i == CHOOSE j \in 1..Len(temp_positions) :
                      TripleOf(temp_positions[j]) = triple
         IN  temp_positions[i].quantity
    ELSE Zero

\* the sum of the signed quantities of the first n replayed trades of a triple
RECURSIVE NetOfTriple(_, _)
NetOfTriple(n, triple) ==
    IF n = 0 THEN Zero
    ELSE IF TripleOf(active_trades[n]) = triple
    THEN RAdd(NetOfTriple(n - 1, triple), active_trades[n].quantity)
    ELSE NetOfTriple(n - 1, triple)

C27_NetQuantity ==
    pc \in {"replay", "done"} =>
        \A k \in 1..idx :
            QuantityHeld(TripleOf(active_trades[k])) =
                NetOfTriple(idx, TripleOf(active_trades[k]))

-----------------------------------------------------------------------------
(* C28: a flat position carries no cost basis: after the replay of any     *)
(* prefix of any ledger of Regular and Adjustment trades, every key whose  *)
(* quantity is exactly 0 has total_value 0, so the next opening trade on   *)
(* that key gets avg_price equal to its own price.                         *)

\* an opening trade of nonzero quantity meets a flat key
OpeningOnFlat == Replaying /\ Pre.quantity = Zero /\ CurTrade.quantity # Zero

C28_FlatNoCostBasis ==
    /\ [](pc \in {"replay", "done"} =>
             \A i \in 1..Len(temp_positions) :
                 temp_positions[i].quantity = Zero =>
                     temp_positions[i].total_value = Zero)
    /\ [][OpeningOnFlat =>
             RDiv(Post.total_value, Post.quantity) = CurTrade.price]_vars

(* C28 as the engine has it: a key whose quantity is exactly 0 has         *)
(* total_value 0 unless the last trade of nonzero quantity replayed on it  *)
(* was an Adjustment, which adds quantity * price to the cost basis even   *)
(* when it nets the position to 0; a Regular trade that brings a key to 0  *)
(* clears the cost basis, and an opening trade that meets quantity 0 and   *)
(* total_value 0 gets avg_price equal to its own price.                    *)

\* the places, among the first n replayed trades, of the trades of nonzero
\* quantity on a key
MovesOn(n, key) ==
    {k \in 1..n : KeyOf(active_trades[k]) = key /\ active_trades[k].quantity # Zero}

\* the last trade of nonzero quantity replayed on the key was an Adjustment
LastMoveAdjusted(n, key) ==
    /\ MovesOn(n, key) # {}
    /\ LET last == CHOOSE k \in MovesOn(n, key) : \A l \in MovesOn(n, key) : l <= k
       IN  active_trades[last].type = ADJUSTMENT

C28_FlatAfterRegular ==
    /\ [](pc \in {"replay", "done"} =>
             \A i \in 1..Len(temp_positions) :
                 (/\ temp_positions[i].quantity = Zero
                  /\ ~LastMoveAdjusted(idx, temp_positions[i].key)) =>
                     temp_positions[i].total_value = Zero)
    /\ [][(OpeningOnFlat /\ Pre.total_value = Zero) =>
             RDiv(Post.total_value, Post.quantity) = CurTrade.price]_vars

\* a position whose cost basis an Adjustment had shifted was closed in full
\* by a Regular trade, at a price that is not its average
C28_Witness ==
    /\ pc = "replay" /\ idx = 3
    /\ ClosedLast
    /\ active_trades[2].type = ADJUSTMENT /\ active_trades[2].quantity # Zero
    /\ LastTrade.price # RDiv(PreLast.total_value, PreLast.quantity)
    /\ Held(temp_positions, KeyOf(LastTrade)) =
          [quantity |-> Zero, total_value |-> Zero]

-----------------------------------------------------------------------------
(* C29: PnL conservation.  For a ledger of Regular trades on one key with  *)
(* fee rate 0 in which no trade's magnitude exceeds the opposing position  *)
(* it meets, the sum of realized_pl over the history plus the floating PnL *)
(* of the remaining position at mark price m is the sum over all trades of *)
(* quantity * (m - price) * multiplier, for every m.                       *)

\* both sides are of the form a * m + b: two marks decide the equality for
\* every m, a third is kept as a control
ConservationMarks == {Zero, R(80), R(90)}

OneKeyRegular ==
    /\ active_trades # <<>>
    /\ \A i \in 1..Len(active_trades) :
          /\ KeyOf(active_trades[i]) = KeyOf(active_trades[1])
          /\ active_trades[i].type = REGULAR

\* the position the k-th replayed trade meets
Met(k) == NetQuantity(k - 1, KeyOf(active_trades[k]))

NoOverClose ==
    \A k \in 1..Len(active_trades) :
        IsOpposing(Met(k), active_trades[k].quantity) =>
            ~RLt(RAbs(Met(k)), RAbs(active_trades[k].quantity))

\* realized plus floating, as the engine reports them
EngineTotal(m) ==
    RAdd(RealizedAll(history),
         SumOf([i \in 1..Len(positions) |->
                   CalculateFloatingPnl(positions[i], m, settings_dict,
                                        ttf_multiplier)]))

\* the sum over the trades of quantity * (m - price) * multiplier
TradesTotal(m) ==
    SumOf([k \in 1..Len(active_trades) |->
              RMul(RMul(active_trades[k].quantity, RSub(m, active_trades[k].price)),
                   R(PolicyMultiplier(active_trades[k].product)))])

Conserved == \A m \in ConservationMarks : EngineTotal(m) = TradesTotal(m)

C29_Conservation ==
    (pc = "done" /\ OneKeyRegular /\ FeeFree /\ NoOverClose) => Conserved

(* C29 as the engine has it: the conservation holds when, in addition, no  *)
(* close leaves a remainder of at most 1e-4 lots other than 0 (the engine  *)
(* clears the cost basis of such a remainder) and the final quantity is 0  *)
(* or exceeds 1e-4 lots in magnitude (the engine drops a smaller position  *)
(* from its output).                                                       *)

\* 0, or more than the tolerance in magnitude
ClearOfTolerance(q) == q = Zero \/ RLt(Tolerance, RAbs(q))

NoTinyRemainder ==
    /\ \A k \in 1..Len(active_trades) :
          IsOpposing(Met(k), active_trades[k].quantity) =>
              ClearOfTolerance(RAdd(Met(k), active_trades[k].quantity))
    /\ ClearOfTolerance(NetQuantity(Len(active_trades), KeyOf(active_trades[1])))

C29_ConservationClearOfTolerance ==
    (pc = "done" /\ OneKeyRegular /\ FeeFree /\ NoOverClose /\ NoTinyRemainder)
        => Conserved

\* a short position was partly bought back at another price and the rest is
\* still open
C29_Witness ==
    /\ pc = "done" /\ OneKeyRegular /\ FeeFree /\ NoOverClose /\ NoTinyRemainder
    /\ Len(history) >= 1
    /\ history[1].realized_pl # Zero
    /\ Len(positions) = 1
    /\ RLt(positions[1].quantity, Zero)
    /\ Conserved

-----------------------------------------------------------------------------
(* C30: key independence.  The final position of a key (trader, product,   *)
(* contract) and the closure entries of that key depend only on the        *)
(* subsequence of the Active trades on that key: the replay of the whole   *)
(* ledger gives the key the quantity, total_value and avg_price, and the   *)
(* closure entries in the order, that the replay of its own trades alone   *)
(* gives it, so adding, removing or reordering trades on other keys        *)
(* changes none of them.                                                   *)

\* what an output holds for a triple
PartOf(out, triple) ==
    [positions |->
        LET own == SelectSeq(out.positions, LAMBDA p : TripleOf(p) = triple)
        IN  [i \in 1..Len(own) |->
                [quantity |-> own[i].quantity, total_value |-> own[i].total_value,
                 avg_price |-> own[i].avg_price]],
     history |-> SelectSeq(out.history, LAMBDA h : TripleOf(h) = triple)]

\* the output of the replay of the trades of one triple alone
AloneOutput(triple) ==
    CalculatePositions(SelectSeq(ledger, LAMBDA t : TripleOf(t) = triple),
                       settings_dict, ttf_multiplier)

C30_KeyIndependence ==
    pc = "done" =>
        \A k \in 1..Len(ledger) :
            PartOf(Output, TripleOf(ledger[k])) =
                PartOf(AloneOutput(TripleOf(ledger[k])), TripleOf(ledger[k]))

====
